---- MODULE Spec2Model ----
(***************************************************************************)
(* Model of the streaming engine of routers/streaming.py: the in-memory    *)
(* session registry (stream_sessions), the ConnectionManager fan-out, the  *)
(* websocket (push) ingestion handler, the URL (pull) ingestion task with  *)
(* its detection units and ordering task, and the close/start endpoints.   *)
(*                                                                         *)
(* The program runs on one asyncio event loop: a coroutine runs without    *)
(* interruption from one await to the next.  Every action below is one     *)
(* such run: it starts where a coroutine is resumed and ends at the next   *)
(* await that can suspend (receive_text, to_thread, sleep, send_json) or   *)
(* at the coroutine's return.                                              *)
(***************************************************************************)
EXTENDS Integers, Sequences, FiniteSets, TLC

\* ------------------------------------------------------------------ bounds
MaxSessions == 2      \* stream ids that can be created (uuid4 values)
MaxOpened == 1        \* sessions opened where one session is followed
MaxConns == 2         \* websocket connections over the run
MaxFrames == 2        \* frames one ingestion context receives
MaxCloseCalls == 2    \* calls of POST /stream/close
MaxStartCalls == 1    \* calls of POST /stream/start that reactivate a stream
MaxTicks == 1         \* advances of the wall clock
MaxPullCloseCalls == 1  \* calls of POST /stream/close made on URL streams
MaxBroadcasts == 1    \* calls of POST /stream/broadcast
MaxJobs == 1          \* uploads to POST /video/detect-smoking
MaxVideoFrames == 8   \* frames one uploaded video holds

\* ------------------------------------------------------- program constants
PushInterval == 5               \* websocket_endpoint: current_time - last_checked >= 5
DefaultDetectionInterval == 5   \* StreamUrlRequest.detection_interval default
FirstExpectedFrame == 1         \* detection_queues[...]['next_frame'] initial value
DefaultFps == 30                \* process_video_smoking_detection: fps = 30
SampleSeconds == 5              \* process_video_smoking_detection: int(fps * 5)
window_size == 5                \* process_video_smoking_detection: window_size = 5

\* The clock advances in steps of one detection interval; it starts at a
\* value no smaller than an interval, as time.time() does, so that the first
\* comparison against last_detection_time = 0 succeeds.
TickSize == DefaultDetectionInterval
Epoch == DefaultDetectionInterval

Tokens == 1..MaxSessions
Conns == 1..MaxConns
CloseCalls == 1..(IF MaxCloseCalls > MaxPullCloseCalls THEN MaxCloseCalls ELSE MaxPullCloseCalls)
FrameNums == 1..MaxFrames
Casts == 1..MaxBroadcasts
Jobs == 1..MaxJobs

\* Values of session["video_writer"]: the key is missing, it is None, or it
\* refers to the writer created by an ingestion context.
KeyMissing == -1
None == 0
WriterOfConn(w) == w
WriterOfUrl(t) == MaxConns + t
WriterIds == 1..(MaxConns + MaxSessions)

NoFrame == <<0, 0>>
Unset == -1

VARIABLES
  now,                \* time.time()
  stream_sessions,    \* the keys of the stream_sessions dict
  session,            \* the session dict made for each stream id (it outlives its key)
  next_uuid,          \* number of stream ids handed out by uuid.uuid4()
  last_frames,        \* last_frames dict: stream id -> cached frame, NoFrame if no key
  active_connections, \* manager.active_connections: stream id -> list of websockets
  writers,            \* the cv2.VideoWriter objects
  ws,                 \* locals of each websocket_endpoint coroutine
  sock,               \* transport state of each websocket
  delivered,          \* messages each websocket client has received
  frame_numbers,      \* per stream id, the frame numbers assigned so far, in order
  closers,            \* locals of each close_stream call
  starts,             \* number of reactivations done by start_stream
  pull,               \* locals of each process_video_stream_from_url task
  detections,         \* the run_detection tasks of each URL stream, by frame number
  detection_queues,   \* detection_queues dict
  sender,             \* locals of each send_ordered_results task
  list_ids,           \* per stream id, which list object is under the key of active_connections
  casts,              \* locals and reply of each broadcast_to_stream call
  http,               \* the latest reply of start_stream, get_stream_status, get_video_stream
  samples,            \* per stream id, the time of the latest call of detect_smoking made for it
  job_results,        \* job_results dict of video_processing.py: job id -> stored dict
  jobs,               \* the upload request and the background task of each job
  polled              \* the latest answer of get_detection_result

\* the variables of routers/streaming.py
stream_vars == <<now, stream_sessions, session, next_uuid, last_frames, active_connections,
                 writers, ws, sock, delivered, frame_numbers, closers, starts, pull,
                 detections, detection_queues, sender, list_ids, casts, http, samples>>

vars == <<stream_vars, job_results, jobs, polled>>

\* ----------------------------------------------------------------- helpers
RECURSIVE RemoveFirst(_, _)
\* list.remove(x): drops the first occurrence of x
RemoveFirst(s, x) ==
  IF s = <<>> THEN <<>>
  ELSE IF Head(s) = x THEN Tail(s)
  ELSE <<Head(s)>> \o RemoveFirst(Tail(s), x)

InList(s, x) == \E i \in 1..Len(s) : s[i] = x

\* stream_sessions.get(t, {}).get("live", False)
IsLive(t) == t \in stream_sessions /\ session[t].live

\* stream_sessions.get(t, {}).get("closing", False)
IsClosing(t) == t \in stream_sessions /\ session[t].closing

NoSession ==
  [live |-> FALSE, closing |-> FALSE, type |-> "none", status |-> "none",
   error |-> "none", video_writer |-> KeyMissing, closed_at |-> Unset,
   detection_interval |-> 0]

NoWriter == [state |-> "none", frames |-> <<>>, releases |-> 0]

\* video_writer.release()
Release(wr) == [wr EXCEPT !.state = "released", !.releases = @ + 1]

\* video_writer.write(frame): a released writer drops the frame
WriteFrame(wr, n) ==
  IF wr.state = "open" THEN [wr EXCEPT !.frames = Append(@, n)] ELSE wr

\* skipped names the message printed when the latest iteration of the loop
\* ended in `continue`; lst is the list object a broadcast iterates over;
\* verdict is the local verdict_raw: what detect_smoking returned last ("none"
\* for None), "unset" before its first call.
IdleWs ==
  [pc |-> "idle", token |-> 0, frame_count |-> 0, last_checked |-> 0,
   video_writer |-> None, target |-> 0, bidx |-> 0, lst |-> 0, verdict |-> "unset",
   skipped |-> "none"]

NoReply == [status_code |-> 0]

IdleCloser == [pc |-> "idle", token |-> 0, returned |-> NoReply, response |-> NoReply]

IdlePull ==
  [pc |-> "none", cap |-> "none", frame_count |-> 0, last_detection_time |-> 0,
   video_writer |-> None, exit |-> "none", target |-> 0, bidx |-> 0, lst |-> 0]

IdleDetection == [pc |-> "none", target |-> 0, bidx |-> 0, lst |-> 0, verdict |-> "unset"]

NoQueue == [exists |-> FALSE, results |-> {}, next_frame |-> 0, lock |-> FALSE]

IdleSender == [pc |-> "none", target |-> 0, bidx |-> 0, lst |-> 0, frame |-> 0]

\* members: the connections listed when broadcast_json began; failed: the
\* connections whose send_json raised in the call
IdleCast ==
  [pc |-> "idle", token |-> 0, target |-> 0, bidx |-> 0, lst |-> 0, at |-> 0,
   members |-> {}, failed |-> {}, response |-> NoReply]

NoCall == [op |-> "none", token |-> 0, response |-> NoReply]

\* a video not yet uploaded
NoVideo == [opened |-> FALSE, fps |-> 0, frames |-> 0]

\* the dicts stored in job_results; a key a dict does not have is "none"
NoJob == [status |-> "none", verdict |-> "none", error |-> "none"]

Processing == [status |-> "processing", verdict |-> "none", error |-> "none"]

Completed(verdict) == [status |-> "completed", verdict |-> verdict, error |-> "none"]

Failed(e) == [status |-> "failed", verdict |-> "none", error |-> e]

\* the request and the background task of one job.  api_verdicts keeps what
\* gather returned, calls counts the detect_smoking calls made, writes the
\* assignments to job_results[job_id] made after the job was created.
IdleJob ==
  [pc |-> "idle", video |-> NoVideo, raised |-> "none", sampled_frames |-> <<>>,
   api_verdicts |-> <<>>, calls |-> 0, writes |-> 0]

\* what get_detection_result answers
NotPolled == [code |-> 0, body |-> NoJob]

Init ==
  /\ now = Epoch
  /\ stream_sessions = {}
  /\ session = [t \in Tokens |-> NoSession]
  /\ next_uuid = 0
  /\ last_frames = [t \in Tokens |-> NoFrame]
  /\ active_connections = [t \in Tokens |-> <<>>]
  /\ writers = [i \in WriterIds |-> NoWriter]
  /\ ws = [w \in Conns |-> IdleWs]
  /\ sock = [w \in Conns |-> "none"]
  /\ delivered = [w \in Conns |-> <<>>]
  /\ frame_numbers = [t \in Tokens |-> <<>>]
  /\ closers = [c \in CloseCalls |-> IdleCloser]
  /\ starts = 0
  /\ pull = [t \in Tokens |-> IdlePull]
  /\ detections = [t \in Tokens |-> [n \in FrameNums |-> IdleDetection]]
  /\ detection_queues = [t \in Tokens |-> NoQueue]
  /\ sender = [t \in Tokens |-> IdleSender]
  /\ list_ids = [t \in Tokens |-> 0]
  /\ casts = [b \in Casts |-> IdleCast]
  /\ http = NoCall
  /\ samples = [t \in Tokens |-> Unset]
  /\ job_results = [j \in Jobs |-> NoJob]
  /\ jobs = [j \in Jobs |-> IdleJob]
  /\ polled = NotPolled

\* ------------------------------------------------------------------ clock
\* time.time() moves on
Tick ==
  /\ now + TickSize <= Epoch + MaxTicks * TickSize
  /\ now' = now + TickSize
  /\ UNCHANGED <<job_results, jobs, polled, stream_sessions, session, next_uuid, last_frames, active_connections,
                 writers, ws, sock, delivered, frame_numbers, closers, starts, pull,
                 detections, detection_queues, sender, list_ids, casts, http, samples>>

\* ------------------------------------------------------ ConnectionManager
\* ConnectionManager.connect
Connect(conns, w) == Append(conns, w)

\* ConnectionManager.disconnect
Disconnect(conns, w) == RemoveFirst(conns, w)

\* What `await connection.send_json(data)` can do.  An open socket takes the
\* message.  A socket whose client has gone, or whose handler has returned,
\* raises in the sender: a plain exception or WebSocketDisconnect, depending on
\* the server library; older servers drop the message without raising.
SendOutcomes(target) ==
  IF sock[target] = "open" THEN {"ok"} ELSE {"error", "disconnect", "lost"}

\* the client's view of one send_json
Deliver(target, outcome, msg) ==
  IF outcome = "ok" THEN [delivered EXCEPT ![target] = Append(@, msg)] ELSE delivered

\* broadcast_json, `for connection in self.active_connections[token]`: the list
\* iterator holds an index into the live list.  bidx is the number of items the
\* iterator has produced; the result is the next item, or 0 when the loop ends.
NextTarget(conns, bidx) == IF bidx < Len(conns) THEN conns[bidx + 1] ELSE 0

\* The iterator of a suspended broadcast_json keeps the list object it was
\* made from.  disconnect deletes the key of an emptied list and connect puts
\* a new list under it: the iterator then still reads the old, empty list.
IterNext(t, lst, bidx) ==
  IF lst = list_ids[t] THEN NextTarget(active_connections[t], bidx) ELSE 0

\* `del self.active_connections[token]` after the removal of w
ListAfterDisconnect(t, w) ==
  IF Disconnect(active_connections[t], w) = <<>>
    THEN [list_ids EXCEPT ![t] = @ + 1]
    ELSE list_ids

SmokingPayload(n, v) == [type |-> "smoking_detection", frame_number |-> n, verdict |-> v]

ErrorPayload == [type |-> "error", frame_number |-> 0, verdict |-> "none"]

\* ------------------------------------------------------ stream creation
\* POST /stream/request
request_stream_token ==
  /\ next_uuid < MaxSessions
  /\ LET t == next_uuid + 1 IN
       /\ next_uuid' = t
       /\ stream_sessions' = stream_sessions \cup {t}
       /\ session' = [session EXCEPT ![t] =
                        [NoSession EXCEPT !.live = TRUE, !.closing = FALSE,
                                          !.type = "websocket", !.status = "unknown"]]
  /\ UNCHANGED <<job_results, jobs, polled, now, last_frames, active_connections, writers, ws, sock, delivered,
                 frame_numbers, closers, starts, pull, detections, detection_queues,
                 sender, list_ids, casts, http, samples>>

\* --------------------------------------------------- websocket_endpoint
\* The part of one loop iteration after the detection block, for a decoded
\* frame: the closing check, the lazy writer initialisation, the write to the
\* file and the latest-frame cache.  h holds the coroutine's locals.
RestOfFrame(w, h, init_ok) ==
  LET t == h.token
      n == h.frame_count
      creating == h.video_writer = None
      vw == WriterOfConn(w)
      opened == IF creating THEN [writers[vw] EXCEPT !.state = "open"] ELSE writers[vw]
  IN
  IF IsClosing(t) THEN
    \* break: the coroutine returns; nothing after the loop runs
    /\ ws' = [ws EXCEPT ![w] = [h EXCEPT !.pc = "returned"]]
    /\ sock' = [sock EXCEPT ![w] = "gone"]
    /\ UNCHANGED <<writers, session, last_frames, active_connections, stream_sessions>>
  ELSE IF creating /\ ~init_ok THEN
    \* the writer could not be initialised: continue
    /\ ws' = [ws EXCEPT ![w] = [h EXCEPT !.pc = "receive", !.skipped = "writer_init"]]
    /\ UNCHANGED <<sock, writers, session, last_frames, active_connections,
                   stream_sessions>>
  ELSE
    /\ ws' = [ws EXCEPT ![w] = [h EXCEPT !.pc = "receive", !.video_writer = vw]]
    /\ writers' = [writers EXCEPT ![vw] = WriteFrame(opened, n)]
    /\ session' = IF creating /\ t \in stream_sessions
                    THEN [session EXCEPT ![t].video_writer = vw]
                    ELSE session
    /\ last_frames' = [last_frames EXCEPT ![t] = <<vw, n>>]
    /\ UNCHANGED <<sock, active_connections, stream_sessions>>

\* a teardown that clears the cached frame of every stream
DropAllCaches(frames, t) == [u \in Tokens |-> NoFrame]

\* `del last_frames[token]`
DropCache(frames, t) == [frames EXCEPT ![t] = NoFrame]

\* a disconnect that also drops the session and its cached frame
DisconnectDropsSession(w, t) ==
  [active_connections |-> [active_connections EXCEPT ![t] = Disconnect(@, w)],
   stream_sessions |-> stream_sessions \ {t},
   last_frames |-> [last_frames EXCEPT ![t] = NoFrame],
   writers |-> writers]

\* manager.disconnect(websocket, token): the module's shared state after the
\* call.  The method touches self.active_connections only.
disconnect(w, t) ==
  [active_connections |-> [active_connections EXCEPT ![t] = Disconnect(@, w)],
   stream_sessions |-> stream_sessions,
   last_frames |-> last_frames,
   writers |-> writers]

\* except WebSocketDisconnect: the connection leaves the manager; when no
\* connection of the stream is left the writer is released and the session and
\* its cached frame are deleted.
OnDisconnect(w, h) ==
  LET t == h.token
      after == disconnect(w, t)
      rest == after.active_connections[t]
      last == rest = <<>>
  IN
  /\ active_connections' = after.active_connections
  /\ writers' = IF last /\ h.video_writer # None
                  THEN [after.writers EXCEPT ![h.video_writer] = Release(@)]
                  ELSE after.writers
  /\ stream_sessions' = IF last THEN after.stream_sessions \ {t}
                                ELSE after.stream_sessions
  /\ last_frames' = IF last THEN DropCache(after.last_frames, t)
                            ELSE after.last_frames
  /\ ws' = [ws EXCEPT ![w] = [h EXCEPT !.pc = "closed"]]
  /\ sock' = [sock EXCEPT ![w] = "gone"]
  /\ UNCHANGED session

\* A client opens /ws/stream/{token}: accept, the token check, manager.connect
\* and the reset of the session's writer reference.
WsConnect(w, t) ==
  /\ ws[w].pc = "idle"
  /\ IF ~IsLive(t) THEN
       \* websocket.close(code=4000)
       /\ ws' = [ws EXCEPT ![w] = [@ EXCEPT !.pc = "rejected", !.token = t]]
       /\ sock' = [sock EXCEPT ![w] = "gone"]
       /\ UNCHANGED <<active_connections, session>>
     ELSE
       /\ active_connections' = [active_connections EXCEPT ![t] = Connect(@, w)]
       /\ session' = [session EXCEPT ![t].video_writer = None]
       /\ ws' = [ws EXCEPT ![w] = [IdleWs EXCEPT !.pc = "receive", !.token = t,
                                                 !.last_checked = now]]
       /\ sock' = [sock EXCEPT ![w] = "open"]
  /\ UNCHANGED <<job_results, jobs, polled, now, stream_sessions, next_uuid, last_frames, writers, delivered,
                 frame_numbers, closers, starts, pull, detections, detection_queues,
                 sender, list_ids, casts, http, samples>>

\* WsReceive that caches a frame it could not decode
WsReceiveCachesUndecoded(w, decoded, init_ok) ==
  /\ ws[w].pc = "receive"
  /\ sock[w] = "open"
  /\ ws[w].frame_count < MaxFrames
  /\ LET t == ws[w].token
         h == [ws[w] EXCEPT !.frame_count = @ + 1, !.skipped = "none"]
     IN
     /\ frame_numbers' = [frame_numbers EXCEPT ![t] = Append(@, h.frame_count)]
     /\ IF ~decoded THEN
          /\ ws' = [ws EXCEPT ![w] = [h EXCEPT !.skipped = "decode"]]
          /\ last_frames' = [last_frames EXCEPT ![t] = <<WriterOfConn(w), h.frame_count>>]
          /\ UNCHANGED <<sock, writers, session, active_connections, stream_sessions>>
        ELSE IF now - h.last_checked >= PushInterval THEN
          /\ ws' = [ws EXCEPT ![w] = [h EXCEPT !.pc = "detect", !.last_checked = now]]
          /\ UNCHANGED <<sock, writers, session, last_frames, active_connections,
                         stream_sessions>>
        ELSE RestOfFrame(w, h, init_ok)
  /\ samples' = IF decoded /\ now - ws[w].last_checked >= PushInterval
                  THEN [samples EXCEPT ![ws[w].token] = now]
                  ELSE samples
  /\ UNCHANGED <<job_results, jobs, polled, now, next_uuid, delivered, closers, starts, pull, detections,
                 detection_queues, sender, list_ids, casts, http>>

\* receive_text returns a frame: it is counted and decoded; when the interval
\* has passed the coroutine waits for detect_smoking, else the rest of the
\* iteration runs.
WsReceive(w, decoded, init_ok) ==
  /\ ws[w].pc = "receive"
  /\ sock[w] = "open"
  /\ ws[w].frame_count < MaxFrames
  /\ LET t == ws[w].token
         h == [ws[w] EXCEPT !.frame_count = @ + 1, !.skipped = "none"]
     IN
     /\ frame_numbers' = [frame_numbers EXCEPT ![t] = Append(@, h.frame_count)]
     /\ IF ~decoded THEN
          /\ ws' = [ws EXCEPT ![w] = [h EXCEPT !.skipped = "decode"]]
          /\ UNCHANGED <<sock, writers, session, last_frames, active_connections,
                         stream_sessions>>
        ELSE IF now - h.last_checked >= PushInterval THEN
          /\ ws' = [ws EXCEPT ![w] = [h EXCEPT !.pc = "detect", !.last_checked = now]]
          /\ UNCHANGED <<sock, writers, session, last_frames, active_connections,
                         stream_sessions>>
        ELSE RestOfFrame(w, h, init_ok)
  /\ samples' = IF decoded /\ now - ws[w].last_checked >= PushInterval
                  THEN [samples EXCEPT ![ws[w].token] = now]
                  ELSE samples
  /\ UNCHANGED <<job_results, jobs, polled, now, next_uuid, delivered, closers, starts, pull, detections,
                 detection_queues, sender, list_ids, casts, http>>

\* detect_smoking returns in the handler: None is dropped, a verdict starts a
\* broadcast to the stream's connections.
WsDetected(w, verdict, init_ok) ==
  /\ ws[w].pc = "detect"
  /\ LET t == ws[w].token
         first == NextTarget(active_connections[t], 0)
     IN
     IF verdict = "none" \/ first = 0
       THEN RestOfFrame(w, [ws[w] EXCEPT !.verdict = verdict], init_ok)
     ELSE
       /\ ws' = [ws EXCEPT ![w] = [@ EXCEPT !.pc = "send", !.target = first,
                                            !.bidx = 1, !.lst = list_ids[t],
                                            !.verdict = verdict]]
       /\ UNCHANGED <<sock, writers, session, last_frames, active_connections,
                      stream_sessions>>
  /\ UNCHANGED <<job_results, jobs, polled, now, next_uuid, delivered, frame_numbers, closers, starts, pull,
                 detections, detection_queues, sender, list_ids, casts, http, samples>>

\* One send_json of the handler's broadcast completes.  An exception skips the
\* rest of the iteration (`except Exception: continue`); WebSocketDisconnect
\* is re-raised into the handler's disconnect branch.
WsSendDone(w, outcome, init_ok) ==
  /\ ws[w].pc = "send"
  /\ outcome \in SendOutcomes(ws[w].target)
  /\ LET t == ws[w].token
         nxt == IterNext(t, ws[w].lst, ws[w].bidx)
         h == [ws[w] EXCEPT !.target = 0, !.bidx = 0, !.lst = 0]
     IN
     /\ delivered' = Deliver(ws[w].target, outcome, SmokingPayload(0, ws[w].verdict))
     /\ list_ids' = IF outcome = "disconnect" THEN ListAfterDisconnect(t, w) ELSE list_ids
     /\ IF outcome = "error" THEN
          /\ ws' = [ws EXCEPT ![w] = [h EXCEPT !.pc = "receive", !.skipped = "frame"]]
          /\ UNCHANGED <<sock, writers, session, last_frames, active_connections,
                         stream_sessions>>
        ELSE IF outcome = "disconnect" THEN OnDisconnect(w, h)
        ELSE IF nxt # 0 THEN
          /\ ws' = [ws EXCEPT ![w] = [@ EXCEPT !.target = nxt, !.bidx = @ + 1]]
          /\ UNCHANGED <<sock, writers, session, last_frames, active_connections,
                         stream_sessions>>
        ELSE RestOfFrame(w, h, init_ok)
  /\ UNCHANGED <<job_results, jobs, polled, now, next_uuid, frame_numbers, closers, starts, pull, detections,
                 detection_queues, sender, casts, http, samples>>

\* The client goes away; its handler learns of it at its next receive_text.
ClientClose(w) ==
  /\ ws[w].pc \in {"receive", "detect", "send"}
  /\ sock[w] = "open"
  /\ sock' = [sock EXCEPT ![w] = "gone"]
  /\ UNCHANGED <<job_results, jobs, polled, now, stream_sessions, session, next_uuid, last_frames,
                 active_connections, writers, ws, delivered, frame_numbers, closers,
                 starts, pull, detections, detection_queues, sender, list_ids, casts, http,
                 samples>>

\* receive_text raises WebSocketDisconnect
WsDisconnect(w) ==
  /\ ws[w].pc = "receive"
  /\ sock[w] = "gone"
  /\ OnDisconnect(w, ws[w])
  /\ list_ids' = ListAfterDisconnect(ws[w].token, w)
  /\ UNCHANGED <<job_results, jobs, polled, now, next_uuid, delivered, frame_numbers, closers, starts, pull,
                 detections, detection_queues, sender, casts, http, samples>>

\* ----------------------------------------------------------- close_stream
\* the dicts close_stream returns
AlreadyClosing(t) ==
  [message |-> "Stream is already closing", stream_id |-> t, status |-> "closing"]

AlreadyClosed(t) ==
  [message |-> "Stream is already closed", stream_id |-> t, status |-> "closed"]

ClosedSuccessfully(t, at) ==
  [message |-> "Stream closed successfully", stream_id |-> t, status |-> "closed",
   closed_at |-> at]

\* raise HTTPException(status_code=404)
NotFound == [status_code |-> 404]

\* response_model=CloseStreamResponse: every field of the model is required
\* (Field(...)); a returned dict that lacks one fails response validation and
\* the caller gets 500 Internal Server Error.
CloseStreamResponse(d) ==
  IF {"message", "stream_id", "status", "closed_at"} \subseteq DOMAIN d
    THEN [status_code |-> 200, message |-> d.message, stream_id |-> d.stream_id,
          status |-> d.status, closed_at |-> d.closed_at]
    ELSE [status_code |-> 500]

\* close_stream up to `await asyncio.sleep(2)`
CloseBegin(c, t) ==
  /\ closers[c].pc = "idle"
  /\ IF t \notin stream_sessions THEN
       /\ closers' = [closers EXCEPT ![c] = [pc |-> "done", token |-> t,
                                             returned |-> NotFound,
                                             response |-> NotFound]]
       /\ UNCHANGED session
     ELSE IF session[t].closing THEN
       /\ closers' = [closers EXCEPT ![c] =
                        [pc |-> "done", token |-> t, returned |-> AlreadyClosing(t),
                         response |-> CloseStreamResponse(AlreadyClosing(t))]]
       /\ UNCHANGED session
     ELSE IF ~session[t].live THEN
       /\ closers' = [closers EXCEPT ![c] =
                        [pc |-> "done", token |-> t, returned |-> AlreadyClosed(t),
                         response |-> CloseStreamResponse(AlreadyClosed(t))]]
       /\ UNCHANGED session
     ELSE
       /\ session' = [session EXCEPT ![t].closing = TRUE]
       /\ closers' = [closers EXCEPT ![c] = [@ EXCEPT !.pc = "sleep", !.token = t]]
  /\ UNCHANGED <<job_results, jobs, polled, now, stream_sessions, next_uuid, last_frames, active_connections,
                 writers, ws, sock, delivered, frame_numbers, starts, pull,
                 detections, detection_queues, sender, list_ids, casts, http, samples>>

\* CloseFinish that leaves the closing flag set
CloseFinishKeepsClosing(c) ==
  /\ closers[c].pc = "sleep"
  /\ LET t == closers[c].token
         vw == session[t].video_writer
         ret == ClosedSuccessfully(t, now)
     IN
     /\ writers' = IF vw # KeyMissing /\ vw # None
                     THEN [writers EXCEPT ![vw] = Release(@)]
                     ELSE writers
     /\ session' = [session EXCEPT ![t].live = FALSE, ![t].closed_at = now]
     /\ closers' = [closers EXCEPT ![c] = [@ EXCEPT !.pc = "done", !.returned = ret,
                                                    !.response = CloseStreamResponse(ret)]]
  /\ UNCHANGED <<job_results, jobs, polled, now, stream_sessions, next_uuid, last_frames, active_connections,
                 ws, sock, delivered, frame_numbers, starts, pull, detections,
                 detection_queues, sender, list_ids, casts, http, samples>>

\* close_stream after the sleep: releases the writer the session refers to and
\* marks the session dict it holds as closed
CloseFinish(c) ==
  /\ closers[c].pc = "sleep"
  /\ LET t == closers[c].token
         vw == session[t].video_writer
         ret == ClosedSuccessfully(t, now)
     IN
     /\ writers' = IF vw # KeyMissing /\ vw # None
                     THEN [writers EXCEPT ![vw] = Release(@)]
                     ELSE writers
     /\ session' = [session EXCEPT ![t].live = FALSE, ![t].closing = FALSE,
                                   ![t].closed_at = now]
     /\ closers' = [closers EXCEPT ![c] = [@ EXCEPT !.pc = "done", !.returned = ret,
                                                    !.response = CloseStreamResponse(ret)]]
  /\ UNCHANGED <<job_results, jobs, polled, now, stream_sessions, next_uuid, last_frames, active_connections,
                 ws, sock, delivered, frame_numbers, starts, pull, detections,
                 detection_queues, sender, list_ids, casts, http, samples>>

\* get_stream_status that answers for an unknown stream id with the defaults
\* of its .get() calls
StatusWithDefaults(t) ==
  IF t \notin stream_sessions
    THEN [status_code |-> 200, stream_id |-> t, status |-> "unknown", live |-> FALSE,
          closing |-> FALSE, error |-> "none", type |-> "websocket"]
  ELSE [status_code |-> 200, stream_id |-> t, status |-> session[t].status,
        live |-> session[t].live, closing |-> session[t].closing,
        error |-> session[t].error, type |-> session[t].type]

\* GET /stream/status/{stream_id}
get_stream_status(t) ==
  IF t \notin stream_sessions THEN NotFound
  ELSE [status_code |-> 200, stream_id |-> t, status |-> session[t].status,
        live |-> session[t].live, closing |-> session[t].closing,
        error |-> session[t].error, type |-> session[t].type]

\* ----------------------------------------------------------- start_stream
\* POST /stream/start/{token}: 404 for an unknown token, nothing for a live
\* stream, else the stream is made live again
StartStream(t) ==
  /\ starts < MaxStartCalls
  /\ IF t \notin stream_sessions THEN
       /\ http' = [op |-> "start", token |-> t, response |-> NotFound]
       /\ UNCHANGED <<session, starts>>
     ELSE IF session[t].live THEN
       /\ http' = [op |-> "start", token |-> t,
                   response |-> [status_code |-> 200, message |-> "Stream already active",
                                 stream_id |-> t]]
       /\ UNCHANGED <<session, starts>>
     ELSE
       /\ session' = [session EXCEPT ![t].live = TRUE]
       /\ starts' = starts + 1
       /\ http' = [op |-> "start", token |-> t,
                   response |-> [status_code |-> 200,
                                 message |-> "Stream started successfully",
                                 stream_id |-> t]]
  /\ UNCHANGED <<job_results, jobs, polled, now, stream_sessions, next_uuid, last_frames, active_connections,
                 writers, ws, sock, delivered, frame_numbers, closers, pull,
                 detections, detection_queues, sender, list_ids, casts, samples>>

\* A client calls GET /stream/status/{stream_id}
StatusQuery(t) ==
  /\ http' = [op |-> "status", token |-> t, response |-> get_stream_status(t)]
  /\ UNCHANGED <<job_results, jobs, polled, now, stream_sessions, session, next_uuid, last_frames,
                 active_connections, writers, ws, sock, delivered, frame_numbers,
                 closers, starts, pull, detections, detection_queues, sender,
                 list_ids, casts, samples>>

\* GET /stream/video/{token}: 404 for an unknown stream id, else the MJPEG
\* response, whose generator serves the cached frame of the stream (NoFrame:
\* nothing is cached yet and the generator waits).
get_video_stream(t) ==
  /\ http' = [op |-> "video", token |-> t,
              response |-> IF t \notin stream_sessions THEN NotFound
                           ELSE [status_code |-> 200, frame |-> last_frames[t]]]
  /\ UNCHANGED <<job_results, jobs, polled, now, stream_sessions, session, next_uuid, last_frames,
                 active_connections, writers, ws, sock, delivered, frame_numbers,
                 closers, starts, pull, detections, detection_queues, sender,
                 list_ids, casts, samples>>

\* get_active_streams: list(stream_sessions.keys())
get_active_streams == stream_sessions

\* GET /stream/list; response_model StreamListResponse keeps active_streams
\* and count
list_active_streams ==
  /\ http' = [op |-> "list", token |-> 0,
              response |-> [status_code |-> 200, active_streams |-> get_active_streams,
                            count |-> Cardinality(get_active_streams)]]
  /\ UNCHANGED <<job_results, jobs, polled, now, stream_sessions, session, next_uuid, last_frames,
                 active_connections, writers, ws, sock, delivered, frame_numbers,
                 closers, starts, pull, detections, detection_queues, sender,
                 list_ids, casts, samples>>

\* ----------------------------------------------------- broadcast_to_stream
\* the payload built from the request body; type tells it from the payloads of
\* the detection messages
BroadcastPayload(at, frames) == [type |-> "frames", time |-> at, frames |-> frames]

\* the dict broadcast_to_stream returns; it has every field of BroadcastResponse
Broadcasted(t, count, payload) ==
  [status_code |-> 200, message |-> "Data broadcasted successfully", stream_id |-> t,
   recipient_count |-> count, data |-> payload]

\* len(manager.active_connections.get(token, []))
recipient_count(t) == Len(active_connections[t])

\* broadcast_to_stream whose broadcast_json lacks `if token in
\* self.active_connections`: with no list under the stream id the lookup raises
BroadcastUnguarded(b, t) ==
  /\ casts[b].pc = "idle"
  /\ LET first == NextTarget(active_connections[t], 0)
         c == [casts[b] EXCEPT !.token = t, !.at = now]
     IN
     casts' = [casts EXCEPT ![b] =
       IF t \notin stream_sessions THEN [c EXCEPT !.pc = "done", !.response = NotFound]
       ELSE IF ~session[t].live
         THEN [c EXCEPT !.pc = "done", !.response = [status_code |-> 400]]
       ELSE IF first = 0
         THEN [c EXCEPT !.pc = "done", !.response = [status_code |-> 500]]
       ELSE [c EXCEPT !.pc = "send", !.target = first, !.bidx = 1,
                      !.lst = list_ids[t],
                      !.members = {active_connections[t][i] :
                                     i \in 1..Len(active_connections[t])}]]
  /\ UNCHANGED <<job_results, jobs, polled, now, stream_sessions, session, next_uuid, last_frames,
                 active_connections, writers, ws, sock, delivered, frame_numbers,
                 closers, starts, pull, detections, detection_queues, sender,
                 list_ids, http, samples>>

\* POST /stream/broadcast/{token} up to the first send_json of broadcast_json:
\* 404 for an unknown stream id, 400 for a stream that is not live; with no
\* connection under the stream id broadcast_json does nothing and the call
\* returns.  Call b carries the request body b.
broadcast_to_stream(b, t) ==
  /\ casts[b].pc = "idle"
  /\ LET first == NextTarget(active_connections[t], 0)
         c == [casts[b] EXCEPT !.token = t, !.at = now]
     IN
     casts' = [casts EXCEPT ![b] =
       IF t \notin stream_sessions THEN [c EXCEPT !.pc = "done", !.response = NotFound]
       ELSE IF ~session[t].live
         THEN [c EXCEPT !.pc = "done", !.response = [status_code |-> 400]]
       ELSE IF first = 0
         THEN [c EXCEPT !.pc = "done",
                        !.response = Broadcasted(t, recipient_count(t),
                                                 BroadcastPayload(now, b))]
       ELSE [c EXCEPT !.pc = "send", !.target = first, !.bidx = 1,
                      !.lst = list_ids[t],
                      !.members = {active_connections[t][i] :
                                     i \in 1..Len(active_connections[t])}]]
  /\ UNCHANGED <<job_results, jobs, polled, now, stream_sessions, session, next_uuid, last_frames,
                 active_connections, writers, ws, sock, delivered, frame_numbers,
                 closers, starts, pull, detections, detection_queues, sender,
                 list_ids, http, samples>>

\* One send_json of the call's broadcast completes.  Whatever it raises leaves
\* broadcast_json and is turned into HTTP 500 by `except Exception`; after the
\* last send the recipients are counted and the call returns.
BroadcastSent(b, outcome) ==
  /\ casts[b].pc = "send"
  /\ outcome \in SendOutcomes(casts[b].target)
  /\ LET c == casts[b]
         t == c.token
         payload == BroadcastPayload(c.at, b)
         nxt == IterNext(t, c.lst, c.bidx)
         end == [c EXCEPT !.pc = "done", !.target = 0, !.bidx = 0, !.lst = 0]
     IN
     /\ delivered' = Deliver(c.target, outcome, payload)
     /\ casts' = [casts EXCEPT ![b] =
          IF outcome \in {"error", "disconnect"}
            THEN [end EXCEPT !.failed = @ \cup {c.target},
                             !.response = [status_code |-> 500]]
          ELSE IF nxt # 0 THEN [c EXCEPT !.target = nxt, !.bidx = @ + 1]
          ELSE [end EXCEPT !.response = Broadcasted(t, recipient_count(t), payload)]]
  /\ UNCHANGED <<job_results, jobs, polled, now, stream_sessions, session, next_uuid, last_frames,
                 active_connections, writers, ws, sock, frame_numbers, closers,
                 starts, pull, detections, detection_queues, sender, list_ids, http,
                 samples>>

\* ------------------------------------------- process_video_stream_from_url
DetectionIntervals == {DefaultDetectionInterval}

\* POST /stream/open-stream-url: the session is created live and the
\* processing task is scheduled
open_stream_from_url(interval) ==
  /\ next_uuid < MaxSessions
  /\ LET t == next_uuid + 1 IN
       /\ next_uuid' = t
       /\ stream_sessions' = stream_sessions \cup {t}
       /\ session' = [session EXCEPT ![t] =
                        [NoSession EXCEPT !.live = TRUE, !.closing = FALSE,
                                          !.type = "url_stream",
                                          !.status = "initializing",
                                          !.detection_interval = interval]]
       /\ pull' = [pull EXCEPT ![t] = [IdlePull EXCEPT !.pc = "start"]]
  /\ UNCHANGED <<job_results, jobs, polled, now, last_frames, active_connections, writers, ws, sock, delivered,
                 frame_numbers, closers, starts, detections, detection_queues,
                 sender, list_ids, casts, http, samples>>

\* PullFinally without the status update
PullFinallyKeepsStatus(t, p, s, wr, cause) ==
  [pull |-> [p EXCEPT !.pc = "done", !.exit = cause, !.target = 0, !.bidx = 0, !.lst = 0,
                      !.cap = IF @ = "none" THEN "none" ELSE "released"],
   session |-> s,
   writer |-> IF p.video_writer # None THEN Release(wr) ELSE wr,
   last_frame |-> last_frames[t],
   dispatched |-> 0]

\* The finally block: the capture and the task's writer are released and, if
\* the stream id is still a key of stream_sessions, the session is marked not
\* live with status "stopped".  s is the session dict, wr the task's writer.
PullFinally(t, p, s, wr, cause) ==
  [pull |-> [p EXCEPT !.pc = "done", !.exit = cause, !.target = 0, !.bidx = 0, !.lst = 0,
                      !.cap = IF @ = "none" THEN "none" ELSE "released"],
   session |-> IF t \in stream_sessions
                 THEN [s EXCEPT !.live = FALSE, !.status = "stopped"]
                 ELSE s,
   writer |-> IF p.video_writer # None THEN Release(wr) ELSE wr,
   last_frame |-> last_frames[t],
   dispatched |-> 0]

\* One turn of the main loop, from the `while` test (preceded, except on the
\* first turn, by the closing check that follows the sleep) to the next
\* `await asyncio.sleep(0.001)`, or out of the loop into the finally block.
PullIteration(t, p, s, wr, first, ret) ==
  LET registered == t \in stream_sessions
      n == p.frame_count + 1
      has_websocket_clients == Len(active_connections[t]) > 0
      sample == has_websocket_clients
                /\ now - p.last_detection_time >= s.detection_interval
  IN
  IF ~first /\ registered /\ s.closing THEN PullFinally(t, p, s, wr, "closing")
  ELSE IF ~(registered /\ s.live) THEN PullFinally(t, p, s, wr, "not_live")
  ELSE IF ~ret THEN PullFinally(t, p, s, wr, "read_failed")
  ELSE
    [pull |-> [p EXCEPT !.pc = "sleep", !.frame_count = n,
                        !.last_detection_time = IF sample THEN now ELSE @],
     session |-> s,
     writer |-> WriteFrame(wr, n),
     last_frame |-> <<WriterOfUrl(t), n>>,
     dispatched |-> IF sample THEN n ELSE 0]

\* asyncio.create_task(run_detection(frame_count, ...))
Dispatch(t, n) ==
  IF n = 0 THEN detections
  ELSE [detections EXCEPT ![t][n] = [IdleDetection EXCEPT !.pc = "detect"]]

\* The task starts: the source is opened.  A source that does not open marks
\* the session "error", broadcasts an error message and returns through the
\* finally block.  A source that opens gets its writer, its result queue and
\* its ordering task, and the first turn of the main loop runs.
PullStart(t, opened, ret) ==
  /\ pull[t].pc = "start"
  /\ ret => pull[t].frame_count < MaxFrames
  /\ LET p0 == [pull[t] EXCEPT !.cap = "open"]
         vw == WriterOfUrl(t)
         first == NextTarget(active_connections[t], 0)
     IN
     IF t \notin stream_sessions THEN
       \* stream_sessions[stream_id][...] raises KeyError, in the try block and
       \* again in the except block
       LET r == PullFinally(t, p0, session[t], writers[vw], "exception") IN
       /\ pull' = [pull EXCEPT ![t] = r.pull]
       /\ UNCHANGED <<session, writers, last_frames, detections, detection_queues,
                      sender>>
     ELSE IF ~opened THEN
       LET s1 == [session[t] EXCEPT !.status = "error", !.error = "open_failed"]
           r == PullFinally(t, p0, s1, writers[vw], "open_failed")
       IN
       IF first # 0 THEN
         /\ pull' = [pull EXCEPT ![t] = [p0 EXCEPT !.pc = "send", !.target = first,
                                                   !.bidx = 1, !.lst = list_ids[t]]]
         /\ session' = [session EXCEPT ![t] = s1]
         /\ UNCHANGED <<writers, last_frames, detections, detection_queues, sender>>
       ELSE
         /\ pull' = [pull EXCEPT ![t] = r.pull]
         /\ session' = [session EXCEPT ![t] = r.session]
         /\ UNCHANGED <<writers, last_frames, detections, detection_queues, sender>>
     ELSE
       LET s1 == [session[t] EXCEPT !.status = "streaming", !.video_writer = vw]
           p1 == [p0 EXCEPT !.video_writer = vw]
           w1 == [writers[vw] EXCEPT !.state = "open"]
           r == PullIteration(t, p1, s1, w1, TRUE, ret)
       IN
       /\ pull' = [pull EXCEPT ![t] = r.pull]
       /\ session' = [session EXCEPT ![t] = r.session]
       /\ writers' = [writers EXCEPT ![vw] = r.writer]
       /\ last_frames' = [last_frames EXCEPT ![t] = r.last_frame]
       /\ detections' = Dispatch(t, r.dispatched)
       /\ detection_queues' = [detection_queues EXCEPT ![t] =
                                 [exists |-> TRUE, results |-> {},
                                  next_frame |-> FirstExpectedFrame, lock |-> FALSE]]
       /\ sender' = [sender EXCEPT ![t] = [IdleSender EXCEPT !.pc = "yield"]]
  /\ frame_numbers' = IF pull'[t].frame_count > pull[t].frame_count
                        THEN [frame_numbers EXCEPT ![t] = Append(@, pull'[t].frame_count)]
                        ELSE frame_numbers
  /\ samples' = IF detections' # detections THEN [samples EXCEPT ![t] = now] ELSE samples
  /\ UNCHANGED <<job_results, jobs, polled, now, stream_sessions, next_uuid, active_connections, ws, sock,
                 delivered, closers, starts, list_ids, casts, http>>

\* The main loop resumes after `await asyncio.sleep(0.001)`
PullResume(t, ret) ==
  /\ pull[t].pc = "sleep"
  /\ ret => pull[t].frame_count < MaxFrames
  /\ LET vw == pull[t].video_writer
         r == PullIteration(t, pull[t], session[t], writers[vw], FALSE, ret)
     IN
     /\ pull' = [pull EXCEPT ![t] = r.pull]
     /\ session' = [session EXCEPT ![t] = r.session]
     /\ writers' = [writers EXCEPT ![vw] = r.writer]
     /\ last_frames' = [last_frames EXCEPT ![t] = r.last_frame]
     /\ detections' = Dispatch(t, r.dispatched)
  /\ frame_numbers' = IF pull'[t].frame_count > pull[t].frame_count
                        THEN [frame_numbers EXCEPT ![t] = Append(@, pull'[t].frame_count)]
                        ELSE frame_numbers
  /\ samples' = IF detections' # detections THEN [samples EXCEPT ![t] = now] ELSE samples
  /\ UNCHANGED <<job_results, jobs, polled, now, stream_sessions, next_uuid, active_connections, ws, sock,
                 delivered, closers, starts, detection_queues, sender,
                 list_ids, casts, http>>

\* One send_json of the error broadcast completes; `except: pass` swallows
\* whatever it raises, and the task returns through the finally block.
PullErrorSent(t, outcome) ==
  /\ pull[t].pc = "send"
  /\ outcome \in SendOutcomes(pull[t].target)
  /\ LET nxt == IterNext(t, pull[t].lst, pull[t].bidx)
         r == PullFinally(t, pull[t], session[t], writers[WriterOfUrl(t)], "open_failed")
     IN
     /\ delivered' = Deliver(pull[t].target, outcome, ErrorPayload)
     /\ IF outcome \in {"ok", "lost"} /\ nxt # 0 THEN
          /\ pull' = [pull EXCEPT ![t] = [@ EXCEPT !.target = nxt, !.bidx = @ + 1]]
          /\ UNCHANGED session
        ELSE
          /\ pull' = [pull EXCEPT ![t] = r.pull]
          /\ session' = [session EXCEPT ![t] = r.session]
  /\ UNCHANGED <<job_results, jobs, polled, now, stream_sessions, next_uuid, last_frames, active_connections,
                 writers, ws, sock, frame_numbers, closers, starts,
                 detections, detection_queues, sender, list_ids, casts, http, samples>>

\* ------------------------------------------------------------ run_detection
\* DetectionDone that reports a missing verdict to the subscribers
DetectionDoneReportsNone(t, n, verdict) ==
  /\ detections[t][n].pc = "detect"
  /\ LET first == NextTarget(active_connections[t], 0) IN
     detections' = [detections EXCEPT ![t][n] =
       IF first = 0
         THEN [IdleDetection EXCEPT !.pc = "done", !.verdict = verdict]
         ELSE [pc |-> "send", target |-> first, bidx |-> 1, lst |-> list_ids[t],
               verdict |-> verdict]]
  /\ UNCHANGED <<job_results, jobs, polled, now, stream_sessions, session, next_uuid, last_frames,
                 active_connections, writers, ws, sock, delivered, frame_numbers,
                 closers, starts, pull, detection_queues, sender, list_ids, casts, http,
                 samples>>

\* detect_smoking returns in a detection task of a URL stream: None (or an
\* exception) ends the task; a verdict is sent with manager.broadcast_json.
DetectionDone(t, n, verdict) ==
  /\ detections[t][n].pc = "detect"
  /\ LET first == NextTarget(active_connections[t], 0) IN
     detections' = [detections EXCEPT ![t][n] =
       IF verdict = "none" \/ first = 0
         THEN [IdleDetection EXCEPT !.pc = "done", !.verdict = verdict]
         ELSE [pc |-> "send", target |-> first, bidx |-> 1, lst |-> list_ids[t],
               verdict |-> verdict]]
  /\ UNCHANGED <<job_results, jobs, polled, now, stream_sessions, session, next_uuid, last_frames,
                 active_connections, writers, ws, sock, delivered, frame_numbers,
                 closers, starts, pull, detection_queues, sender, list_ids, casts, http,
                 samples>>

\* One send_json of a detection task's broadcast completes; `except Exception`
\* ends the task on any failure.
DetectionSent(t, n, outcome) ==
  /\ detections[t][n].pc = "send"
  /\ outcome \in SendOutcomes(detections[t][n].target)
  /\ LET d == detections[t][n]
         nxt == IterNext(t, d.lst, d.bidx)
     IN
     /\ delivered' = Deliver(d.target, outcome, SmokingPayload(n, d.verdict))
     /\ detections' = [detections EXCEPT ![t][n] =
          IF outcome \in {"ok", "lost"} /\ nxt # 0
            THEN [d EXCEPT !.target = nxt, !.bidx = @ + 1]
            ELSE [IdleDetection EXCEPT !.pc = "done", !.verdict = d.verdict]]
  /\ UNCHANGED <<job_results, jobs, polled, now, stream_sessions, session, next_uuid, last_frames,
                 active_connections, writers, ws, sock, frame_numbers, closers,
                 starts, pull, detection_queues, sender, list_ids, casts, http, samples>>

\* ------------------------------------------------------ send_ordered_results
\* an ordering task whose loop does not test the session
SenderPollForever(t) ==
  /\ sender[t].pc = "yield"
  /\ detection_queues' = [detection_queues EXCEPT ![t].lock = TRUE]
  /\ sender' = [sender EXCEPT ![t] = [IdleSender EXCEPT !.pc = "wait"]]
  /\ UNCHANGED <<job_results, jobs, polled, now, stream_sessions, session, next_uuid, last_frames,
                 active_connections, writers, ws, sock, delivered, frame_numbers,
                 closers, starts, pull, detections, list_ids, casts, http, samples>>

\* The ordering task at its `while` test: it ends when the session is not
\* live; else it takes the lock and looks for the result of next_frame: a
\* result found is popped and broadcast under the lock, else the task sleeps
\* 0.01 s, still inside `async with`.
SenderPoll(t) ==
  /\ sender[t].pc = "yield"
  /\ LET q == detection_queues[t]
         k == q.next_frame
         first == NextTarget(active_connections[t], 0)
     IN
     IF ~IsLive(t) THEN
       /\ sender' = [sender EXCEPT ![t] = [IdleSender EXCEPT !.pc = "done"]]
       /\ UNCHANGED detection_queues
     ELSE IF k \in q.results THEN
       IF first = 0 THEN
         /\ detection_queues' = [detection_queues EXCEPT ![t].results = @ \ {k},
                                                         ![t].next_frame = k + 1]
         /\ UNCHANGED sender
       ELSE
         /\ detection_queues' = [detection_queues EXCEPT ![t].results = @ \ {k},
                                                         ![t].lock = TRUE]
         /\ sender' = [sender EXCEPT ![t] = [pc |-> "send", target |-> first,
                                             bidx |-> 1, lst |-> list_ids[t],
                                             frame |-> k]]
     ELSE
       /\ detection_queues' = [detection_queues EXCEPT ![t].lock = TRUE]
       /\ sender' = [sender EXCEPT ![t] = [IdleSender EXCEPT !.pc = "wait"]]
  /\ UNCHANGED <<job_results, jobs, polled, now, stream_sessions, session, next_uuid, last_frames,
                 active_connections, writers, ws, sock, delivered, frame_numbers,
                 closers, starts, pull, detections, list_ids, casts, http, samples>>

\* The ordering task resumes inside `async with`: from the 0.01 s sleep, or
\* from a send_json of its broadcast.  Leaving the block releases the lock; an
\* exception of send_json ends the task.
SenderResume(t, outcome) ==
  /\ sender[t].pc \in {"wait", "send"}
  /\ IF sender[t].pc = "wait" THEN
       /\ outcome = "ok"
       /\ detection_queues' = [detection_queues EXCEPT ![t].lock = FALSE]
       /\ sender' = [sender EXCEPT ![t] = [IdleSender EXCEPT !.pc = "yield"]]
       /\ UNCHANGED delivered
     ELSE
       /\ outcome \in SendOutcomes(sender[t].target)
       /\ delivered' = Deliver(sender[t].target, outcome,
                               SmokingPayload(sender[t].frame, "Yes"))
       /\ LET nxt == IterNext(t, sender[t].lst, sender[t].bidx) IN
          IF outcome \in {"error", "disconnect"} THEN
            /\ detection_queues' = [detection_queues EXCEPT ![t].lock = FALSE]
            /\ sender' = [sender EXCEPT ![t] = [IdleSender EXCEPT !.pc = "failed"]]
          ELSE IF nxt # 0 THEN
            /\ sender' = [sender EXCEPT ![t] = [@ EXCEPT !.target = nxt, !.bidx = @ + 1]]
            /\ UNCHANGED detection_queues
          ELSE
            /\ detection_queues' = [detection_queues EXCEPT ![t].lock = FALSE,
                                                            ![t].next_frame = @ + 1]
            /\ sender' = [sender EXCEPT ![t] = [IdleSender EXCEPT !.pc = "yield"]]
  /\ UNCHANGED <<job_results, jobs, polled, now, stream_sessions, session, next_uuid, last_frames,
                 active_connections, writers, ws, sock, frame_numbers, closers,
                 starts, pull, detections, list_ids, casts, http, samples>>

\* ======================================================= video_processing.py
\* A video file as cv2.VideoCapture sees it: whether it opens, the rate it
\* reports (in tenths of a frame per second) and the number of frames read()
\* yields before it returns ret = False.
FpsTenths == {0, 1, 2, 10}

Videos == [opened : BOOLEAN, fps : FpsTenths, frames : 0..MaxVideoFrames]

\* What detect_smoking returns: the text of the model's answer, as a sequence
\* of characters, or None when the API call raised.
NoResult == [none |-> TRUE, text |-> <<>>]

Text(s) == [none |-> FALSE, text |-> s]

Replies ==
  {Text(<<"Y", "e", "s">>), Text(<<"N", "o">>), Text(<<" ", "Y", "E", "S", ".", " ">>),
   NoResult}

\* all lists of n classifier results
ReplyLists(n) == [1..n -> Replies]

\* str.lower on one character
LowerChar(c) ==
  CASE c = "Y" -> "y" [] c = "E" -> "e" [] c = "S" -> "s"
    [] c = "N" -> "n" [] c = "O" -> "o" [] OTHER -> c

\* str.lower
Lower(s) == [i \in 1..Len(s) |-> LowerChar(s[i])]

RECURSIVE LStrip(_)
LStrip(s) == IF s # <<>> /\ Head(s) = " " THEN LStrip(Tail(s)) ELSE s

RECURSIVE RStrip(_)
RStrip(s) ==
  IF s # <<>> /\ s[Len(s)] = " " THEN RStrip(SubSeq(s, 1, Len(s) - 1)) ELSE s

\* str.strip
Strip(s) == RStrip(LStrip(s))

\* `sub in s`
Contains(s, sub) ==
  \E i \in 1..(Len(s) - Len(sub) + 1) : SubSeq(s, i, i + Len(sub) - 1) = sub

\* `if result and "yes" in result.strip().lower()`: None and the empty string
\* are falsy
Normalize(result) ==
  IF ~result.none /\ result.text # <<>>
       /\ Contains(Lower(Strip(result.text)), <<"y", "e", "s">>)
    THEN "Yes" ELSE "No"

\* the list frame_verdicts made from api_verdicts
FrameVerdicts(api_verdicts) ==
  [i \in 1..Len(api_verdicts) |-> Normalize(api_verdicts[i])]

\* list.count / deque.count
Count(s, x) == Cardinality({k \in 1..Len(s) : s[k] = x})

\* deque(maxlen=window_size).append: a full deque drops its oldest item
DequeAppend(dq, x) ==
  IF Len(dq) = window_size THEN Append(Tail(dq), x) ELSE Append(dq, x)

\* a window that two positive samples make positive
WindowOfTwo(verdicts_window) ==
  IF Count(verdicts_window, "Yes") >= 2 THEN "Yes" ELSE "No"

\* `if yes_count / window_size > 0.5`.  The float quotient is above 0.5
\* exactly when 2 * yes_count > window_size.
WindowVerdict(verdicts_window) ==
  IF 2 * Count(verdicts_window, "Yes") > window_size THEN "Yes" ELSE "No"

RECURSIVE Slide(_, _, _, _)
\* `for verdict in frame_verdicts`: i is the index of the verdict the loop
\* takes next, verdicts_window the deque, out the list window_verdicts
Slide(frame_verdicts, i, verdicts_window, out) ==
  IF i > Len(frame_verdicts) THEN out
  ELSE LET dq == DequeAppend(verdicts_window, frame_verdicts[i]) IN
       Slide(frame_verdicts, i + 1, dq,
             IF Len(dq) = window_size THEN Append(out, WindowVerdict(dq)) ELSE out)

\* the list window_verdicts
WindowVerdicts(frame_verdicts) == Slide(frame_verdicts, 1, <<>>, <<>>)

\* a fallback rule that wants every sample positive
AllPositive(frame_verdicts) ==
  IF \A k \in 1..Len(frame_verdicts) : frame_verdicts[k] = "Yes" THEN "Yes" ELSE "No"

\* `return "Yes" if "Yes" in frame_verdicts else "No"`
AnyPositive(frame_verdicts) ==
  IF \E k \in 1..Len(frame_verdicts) : frame_verdicts[k] = "Yes" THEN "Yes" ELSE "No"

\* a final rule that accepts half of the windows
AtLeastHalf(window_verdicts) ==
  IF 2 * Count(window_verdicts, "Yes") >= Len(window_verdicts) THEN "Yes" ELSE "No"

\* positive_windows / len(window_verdicts) > 0.5.  The float quotient of two
\* small integers is above 0.5 exactly when 2 * positive_windows > len.
MajorityOfWindows(window_verdicts) ==
  IF 2 * Count(window_verdicts, "Yes") > Len(window_verdicts) THEN "Yes" ELSE "No"

\* process_video_smoking_detection after asyncio.gather has returned
Aggregate(api_verdicts) ==
  LET frame_verdicts == FrameVerdicts(api_verdicts) IN
  IF Len(frame_verdicts) < 5 THEN AnyPositive(frame_verdicts)
  ELSE LET window_verdicts == WindowVerdicts(frame_verdicts) IN
       IF window_verdicts = <<>> THEN "No" ELSE MajorityOfWindows(window_verdicts)

\* frame_interval = int(fps * 5), with fps = 30 when the file reports none
FrameInterval(video) ==
  LET fps == IF video.fps = 0 THEN DefaultFps * 10 ELSE video.fps IN
  (fps * SampleSeconds) \div 10

RECURSIVE ReadFrames(_, _, _, _)
\* the read loop: frame_count is the index of the frame read next, the
\* result is the list sampled_frames (the indexes of the frames kept)
ReadFrames(video, frame_interval, frame_count, sampled_frames) ==
  IF frame_count >= video.frames THEN sampled_frames
  ELSE ReadFrames(video, frame_interval, frame_count + 1,
                  IF frame_count % frame_interval = 0
                    THEN Append(sampled_frames, frame_count) ELSE sampled_frames)

\* a sampling that rejects a video without frames
SampleVideoRejectsEmpty(video) ==
  IF ~video.opened THEN [raised |-> "HTTPException", sampled_frames |-> <<>>]
  ELSE IF video.frames = 0 THEN [raised |-> "ValueError", sampled_frames |-> <<>>]
  ELSE IF FrameInterval(video) = 0
    THEN [raised |-> "ZeroDivisionError", sampled_frames |-> <<>>]
  ELSE [raised |-> "none",
        sampled_frames |-> ReadFrames(video, FrameInterval(video), 0, <<>>)]

\* process_video_smoking_detection up to its first await: the exception it
\* raises, if any, and the frames it has sampled.  A file that does not open
\* raises HTTPException(400); an interval of 0 makes frame_count % 0 raise on
\* the first frame read.
SampleVideo(video) ==
  IF ~video.opened THEN [raised |-> "HTTPException", sampled_frames |-> <<>>]
  ELSE IF video.frames > 0 /\ FrameInterval(video) = 0
    THEN [raised |-> "ZeroDivisionError", sampled_frames |-> <<>>]
  ELSE [raised |-> "none",
        sampled_frames |-> ReadFrames(video, FrameInterval(video), 0, <<>>)]

\* POST /video/detect-smoking up to `await file.read()`: a fresh job id and
\* its "processing" entry
detect_smoking_in_video(j, video) ==
  /\ job_results[j].status = "none"
  /\ \A i \in Jobs : i < j => job_results[i].status # "none"
  /\ job_results' = [job_results EXCEPT ![j] = Processing]
  /\ jobs' = [jobs EXCEPT ![j] = [IdleJob EXCEPT !.pc = "upload", !.video = video]]
  /\ UNCHANGED polled
  /\ UNCHANGED stream_vars

\* A store that leaves the job "processing" when the upload fails
UploadStoredKeepsProcessing(j, ok) ==
  /\ jobs[j].pc = "upload"
  /\ jobs' = [jobs EXCEPT ![j] = [@ EXCEPT !.pc = IF ok THEN "queued" ELSE "done",
                                             !.raised = IF ok THEN "none" ELSE "OSError"]]
  /\ UNCHANGED <<job_results, polled>>
  /\ UNCHANGED stream_vars

\* The upload has been read: it is written to a temporary file and the
\* background task is added; an exception on the way marks the job failed and
\* the request is answered 500.
UploadStored(j, ok) ==
  /\ jobs[j].pc = "upload"
  /\ IF ok THEN
       /\ jobs' = [jobs EXCEPT ![j] = [@ EXCEPT !.pc = "queued"]]
       /\ UNCHANGED job_results
     ELSE
       /\ jobs' = [jobs EXCEPT ![j] = [@ EXCEPT !.pc = "done", !.raised = "OSError",
                                                 !.writes = @ + 1]]
       /\ job_results' = [job_results EXCEPT ![j] = Failed("OSError")]
  /\ UNCHANGED polled
  /\ UNCHANGED stream_vars

\* process_video_and_store_result starts: the video is opened and sampled.
\* An exception, or a video with no sampled frame, ends the task here;
\* otherwise one detect_smoking call per sampled frame is started and the
\* task waits in asyncio.gather.
WorkerStart(j) ==
  /\ jobs[j].pc = "queued"
  /\ LET r == SampleVideo(jobs[j].video) IN
     IF r.raised # "none" THEN
       /\ jobs' = [jobs EXCEPT ![j] = [@ EXCEPT !.pc = "done", !.raised = r.raised,
                                                 !.writes = @ + 1]]
       /\ job_results' = [job_results EXCEPT ![j] = Failed(r.raised)]
     ELSE IF r.sampled_frames = <<>> THEN
       /\ jobs' = [jobs EXCEPT ![j] = [@ EXCEPT !.pc = "done", !.writes = @ + 1]]
       /\ job_results' = [job_results EXCEPT ![j] = Completed("No")]
     ELSE
       /\ jobs' = [jobs EXCEPT ![j] = [@ EXCEPT !.pc = "gather",
                                                 !.sampled_frames = r.sampled_frames,
                                                 !.calls = Len(r.sampled_frames)]]
       /\ UNCHANGED job_results
  /\ UNCHANGED polled
  /\ UNCHANGED stream_vars

\* asyncio.gather returns the results of the detect_smoking calls, in the
\* order of the sampled frames; the verdict is computed and stored.
WorkerGathered(j) ==
  /\ jobs[j].pc = "gather"
  /\ \E api_verdicts \in ReplyLists(Len(jobs[j].sampled_frames)) :
       /\ jobs' = [jobs EXCEPT ![j] = [@ EXCEPT !.pc = "done",
                                                 !.api_verdicts = api_verdicts,
                                                 !.writes = @ + 1]]
       /\ job_results' = [job_results EXCEPT ![j] = Completed(Aggregate(api_verdicts))]
  /\ UNCHANGED polled
  /\ UNCHANGED stream_vars

\* GET /video/detect-smoking/result/{job_id}
get_detection_result(j) ==
  /\ polled' = IF job_results[j].status = "none"
                 THEN [code |-> 404, body |-> NoJob]
                 ELSE [code |-> 200, body |-> job_results[j]]
  /\ UNCHANGED <<job_results, jobs>>
  /\ UNCHANGED stream_vars

Verdicts == {"none", "Yes", "No"}

SendResults == {"ok", "error", "disconnect", "lost"}

NextPush ==
  \/ Tick
  \/ next_uuid < MaxOpened /\ request_stream_token
  \/ \E w \in Conns, t \in Tokens : WsConnect(w, t)
  \/ \E w \in Conns, decoded \in BOOLEAN, init_ok \in BOOLEAN : WsReceive(w, decoded, init_ok)
  \/ \E w \in Conns, v \in Verdicts, init_ok \in BOOLEAN : WsDetected(w, v, init_ok)
  \/ \E w \in Conns, o \in SendResults, init_ok \in BOOLEAN :
        WsSendDone(w, o, init_ok)
  \/ \E w \in Conns : ClientClose(w)
  \/ \E w \in Conns : WsDisconnect(w)
  \/ \E c \in CloseCalls, t \in Tokens : CloseBegin(c, t)
  \/ \E c \in CloseCalls : CloseFinish(c)
  \/ \E t \in Tokens : StartStream(t)

SpecPush == Init /\ [][NextPush]_vars

NextPull ==
  \/ Tick
  \/ \E i \in DetectionIntervals : next_uuid < MaxOpened /\ open_stream_from_url(i)
  \/ \E t \in Tokens, opened \in BOOLEAN, ret \in BOOLEAN : PullStart(t, opened, ret)
  \/ \E t \in Tokens, ret \in BOOLEAN : PullResume(t, ret)
  \/ \E t \in Tokens, o \in SendResults : PullErrorSent(t, o)
  \/ \E t \in Tokens, n \in FrameNums, v \in Verdicts : DetectionDone(t, n, v)
  \/ \E t \in Tokens, n \in FrameNums, o \in SendResults : DetectionSent(t, n, o)
  \/ \E t \in Tokens : SenderPoll(t)
  \/ \E t \in Tokens, o \in SendResults : SenderResume(t, o)
  \/ \E w \in Conns, t \in Tokens : WsConnect(w, t)
  \/ \E w \in Conns : ClientClose(w)
  \/ \E w \in Conns : WsDisconnect(w)
  \/ \E c \in 1..MaxPullCloseCalls, t \in Tokens : CloseBegin(c, t)
  \/ \E c \in 1..MaxPullCloseCalls : CloseFinish(c)

SpecPull == Init /\ [][NextPull]_vars

\* The URL sessions at one instant of the clock, with the ordering task
\* scheduled fairly: the event loop resumes a task whose sleep has elapsed.
NextOrder ==
  \/ \E i \in DetectionIntervals : next_uuid < MaxOpened /\ open_stream_from_url(i)
  \/ \E t \in Tokens, opened \in BOOLEAN, ret \in BOOLEAN : PullStart(t, opened, ret)
  \/ \E t \in Tokens, ret \in BOOLEAN : PullResume(t, ret)
  \/ \E t \in Tokens, o \in SendResults : PullErrorSent(t, o)
  \/ \E t \in Tokens, n \in FrameNums, v \in Verdicts : DetectionDone(t, n, v)
  \/ \E t \in Tokens, n \in FrameNums, o \in SendResults : DetectionSent(t, n, o)
  \/ \E t \in Tokens : SenderPoll(t)
  \/ \E t \in Tokens, o \in SendResults : SenderResume(t, o)
  \/ \E w \in Conns, t \in Tokens : WsConnect(w, t)
  \/ \E w \in Conns : ClientClose(w)
  \/ \E w \in Conns : WsDisconnect(w)
  \/ \E c \in 1..MaxPullCloseCalls, t \in Tokens : CloseBegin(c, t)
  \/ \E c \in 1..MaxPullCloseCalls : CloseFinish(c)

SpecOrder ==
  /\ Init /\ [][NextOrder]_vars
  /\ \A t \in Tokens : WF_vars(SenderPoll(t))
  /\ \A t \in Tokens : WF_vars(\E o \in SendResults : SenderResume(t, o))

NextClose ==
  \/ next_uuid < MaxOpened /\ request_stream_token
  \/ \E w \in Conns, t \in Tokens : WsConnect(w, t)
  \/ \E w \in Conns, decoded \in BOOLEAN, init_ok \in BOOLEAN : WsReceive(w, decoded, init_ok)
  \/ \E w \in Conns : ClientClose(w)
  \/ \E w \in Conns : WsDisconnect(w)
  \/ \E c \in CloseCalls, t \in Tokens : CloseBegin(c, t)
  \/ \E c \in CloseCalls : CloseFinish(c)
  \/ \E t \in Tokens : StartStream(t)

SpecClose == Init /\ [][NextClose]_vars

\* the client of connection w is the source of a push session
PushClient(w) == ws[w].token \in Tokens /\ session[ws[w].token].type = "websocket"

\* Sampling in both kinds of session, with the clock: a session is fed either
\* by websocket clients that send frames or by a URL task watched by
\* websocket clients that send none.
NextSample ==
  \/ Tick
  \/ next_uuid < MaxOpened /\ request_stream_token
  \/ \E i \in DetectionIntervals : next_uuid < MaxOpened /\ open_stream_from_url(i)
  \/ \E w \in Conns, t \in Tokens : WsConnect(w, t)
  \/ \E w \in Conns, decoded \in BOOLEAN, init_ok \in BOOLEAN :
        PushClient(w) /\ WsReceive(w, decoded, init_ok)
  \/ \E w \in Conns, v \in Verdicts, init_ok \in BOOLEAN : WsDetected(w, v, init_ok)
  \/ \E w \in Conns, o \in SendResults, init_ok \in BOOLEAN : WsSendDone(w, o, init_ok)
  \/ \E w \in Conns : ClientClose(w)
  \/ \E w \in Conns : WsDisconnect(w)
  \/ \E t \in Tokens, opened \in BOOLEAN, ret \in BOOLEAN : PullStart(t, opened, ret)
  \/ \E t \in Tokens, ret \in BOOLEAN : PullResume(t, ret)
  \/ \E t \in Tokens, o \in SendResults : PullErrorSent(t, o)
  \/ \E t \in Tokens, n \in FrameNums, v \in Verdicts : DetectionDone(t, n, v)
  \/ \E t \in Tokens, n \in FrameNums, o \in SendResults : DetectionSent(t, n, o)
  \/ \E t \in Tokens : SenderPoll(t)
  \/ \E t \in Tokens, o \in SendResults : SenderResume(t, o)

SpecSample == Init /\ [][NextSample]_vars

\* The fan-out and the registry: sessions, their connections, the broadcast
\* endpoint, the queries and one close call
NextFanout ==
  \/ next_uuid < MaxOpened /\ request_stream_token
  \/ \E w \in Conns, t \in Tokens : WsConnect(w, t)
  \/ \E w \in Conns : ClientClose(w)
  \/ \E w \in Conns : WsDisconnect(w)
  \/ \E b \in Casts, t \in Tokens : broadcast_to_stream(b, t)
  \/ \E b \in Casts, o \in SendResults : BroadcastSent(b, o)
  \/ \E t \in Tokens : StatusQuery(t)
  \/ \E t \in Tokens : get_video_stream(t)
  \/ list_active_streams
  \/ \E t \in Tokens : StartStream(t)
  \/ \E c \in 1..MaxPullCloseCalls, t \in Tokens : CloseBegin(c, t)
  \/ \E c \in 1..MaxPullCloseCalls : CloseFinish(c)

SpecFanout == Init /\ [][NextFanout]_vars

\* The whole program
Next ==
  \/ Tick
  \/ next_uuid < MaxOpened /\ request_stream_token
  \/ \E i \in DetectionIntervals : next_uuid < MaxOpened /\ open_stream_from_url(i)
  \/ \E w \in Conns, t \in Tokens : WsConnect(w, t)
  \/ \E w \in Conns, decoded \in BOOLEAN, init_ok \in BOOLEAN : WsReceive(w, decoded, init_ok)
  \/ \E w \in Conns, v \in Verdicts, init_ok \in BOOLEAN : WsDetected(w, v, init_ok)
  \/ \E w \in Conns, o \in SendResults, init_ok \in BOOLEAN : WsSendDone(w, o, init_ok)
  \/ \E w \in Conns : ClientClose(w)
  \/ \E w \in Conns : WsDisconnect(w)
  \/ \E c \in CloseCalls, t \in Tokens : CloseBegin(c, t)
  \/ \E c \in CloseCalls : CloseFinish(c)
  \/ \E t \in Tokens : StartStream(t)
  \/ \E t \in Tokens, opened \in BOOLEAN, ret \in BOOLEAN : PullStart(t, opened, ret)
  \/ \E t \in Tokens, ret \in BOOLEAN : PullResume(t, ret)
  \/ \E t \in Tokens, o \in SendResults : PullErrorSent(t, o)
  \/ \E t \in Tokens, n \in FrameNums, v \in Verdicts : DetectionDone(t, n, v)
  \/ \E t \in Tokens, n \in FrameNums, o \in SendResults : DetectionSent(t, n, o)
  \/ \E t \in Tokens : SenderPoll(t)
  \/ \E t \in Tokens, o \in SendResults : SenderResume(t, o)
  \/ \E b \in Casts, t \in Tokens : broadcast_to_stream(b, t)
  \/ \E b \in Casts, o \in SendResults : BroadcastSent(b, o)
  \/ \E t \in Tokens : StatusQuery(t)
  \/ \E t \in Tokens : get_video_stream(t)
  \/ list_active_streams
  \/ \E j \in Jobs, video \in Videos : detect_smoking_in_video(j, video)
  \/ \E j \in Jobs, ok \in BOOLEAN : UploadStored(j, ok)
  \/ \E j \in Jobs : WorkerStart(j)
  \/ \E j \in Jobs : WorkerGathered(j)
  \/ \E j \in Jobs : get_detection_result(j)

Spec == Init /\ [][Next]_vars

\* The batch jobs: uploads, their background tasks and the polls.
NextBatch ==
  \/ \E j \in Jobs, video \in Videos : detect_smoking_in_video(j, video)
  \/ \E j \in Jobs, ok \in BOOLEAN : UploadStored(j, ok)
  \/ \E j \in Jobs : WorkerStart(j)
  \/ \E j \in Jobs : WorkerGathered(j)
  \/ \E j \in Jobs : get_detection_result(j)

SpecBatch == Init /\ [][NextBatch]_vars

\* ================================================================= claims

\* The writers made for stream t: the URL task's and those of the websocket
\* handlers bound to t.
WritersOf(t) ==
  {WriterOfUrl(t)} \cup {WriterOfConn(w) : w \in {x \in Conns : ws[x].token = t}}

\* no writer of stream t is still open
SinkReleased(t) == \A i \in WritersOf(t) : writers[i].state # "open"

\* C1: in a URL session the detection results a subscriber receives carry
\* non-decreasing frame numbers, whatever order the detection units finish in.
C1_DeliveryInFrameOrder ==
  \A w \in Conns : \A i, j \in 1..Len(delivered[w]) :
    (i < j /\ delivered[w][i].type = "smoking_detection"
           /\ delivered[w][j].type = "smoking_detection")
      => delivered[w][i].frame_number <= delivered[w][j].frame_number

\* C2: of two concurrent close calls on one session only one drains, and the
\* call that finds the session closing is answered "already closing".
C2_OneDrainSecondSeesClosing ==
  /\ \A c1, c2 \in CloseCalls :
       (c1 # c2 /\ closers[c1].pc = "sleep" /\ closers[c2].pc = "sleep")
         => closers[c1].token # closers[c2].token
  /\ \A c \in CloseCalls :
       closers[c].returned = AlreadyClosing(closers[c].token)
         => /\ closers[c].response.status_code = 200
            /\ closers[c].response.status = "closing"

\* C3: the frame numbers assigned in a session are 1, 2, 3, ... in the order
\* of assignment, also when several connections submit frames to it.
C3_FrameNumbersGapless ==
  \A t \in Tokens : \A i \in 1..Len(frame_numbers[t]) : frame_numbers[t][i] = i

\* a session whose explicit close has completed
Closed(t) == t \in stream_sessions /\ ~session[t].live /\ session[t].closed_at # Unset

\* C4: once the explicit close of a session has completed, no frame is appended
\* to a writer of the session and its latest-frame cache is not overwritten.
C4_NoFrameAfterClose ==
  [][\A t \in Tokens :
       Closed(t) =>
         /\ last_frames'[t] \in {last_frames[t], NoFrame}
         /\ \A i \in WritersOf(t) : writers'[i].frames = writers[i].frames]_vars

\* C5: when the drain of an accepted close ends, with no frame or
\* classification in flight, the session is Stopped: not live, not closing,
\* close time stamped, sink released.
C5_CloseReachesStopped ==
  [][\A c \in CloseCalls :
       (closers[c].pc = "sleep" /\ closers'[c].pc = "done"
          /\ \A w \in Conns : ws[w].pc \notin {"detect", "send"})
         => LET t == closers[c].token IN
            /\ ~session'[t].live
            /\ ~session'[t].closing
            /\ session'[t].closed_at # Unset
            /\ SinkReleased(t)']_vars

C7_CloseIdempotent ==
  [][\A c \in CloseCalls :
       (closers[c].pc = "idle" /\ closers'[c].pc = "done"
          /\ closers'[c].returned = AlreadyClosed(closers'[c].token))
         => /\ closers'[c].response.status_code = 200
            /\ closers'[c].response.status = "closed"
            /\ session' = session
            /\ writers' = writers]_vars

\* a session that was closed or has failed
Terminal(t) ==
  /\ t \in stream_sessions
  /\ ~session[t].live
  /\ session[t].closed_at # Unset \/ session[t].status \in {"stopped", "error"}

\* C8: a session that was closed or has failed never becomes live again.
C8_TerminalStaysTerminal ==
  [][\A t \in Tokens : Terminal(t) => ~session'[t].live]_vars

\* C9: after a URL task has ended because its source did not open, the status
\* query reports status "error" with the cause recorded.
C9_OpenFailureReportsError ==
  \A t \in Tokens :
    (pull[t].pc = "done" /\ pull[t].exit = "open_failed" /\ t \in stream_sessions)
      => /\ get_stream_status(t).status = "error"
         /\ get_stream_status(t).error # "none"

\* C10: the step in which a frame read fails after the source opened leaves
\* the session stopped and not live, with the capture and the writer released
\* and no error recorded.
C10_ReadFailureStopsGracefully ==
  [][\A t \in Tokens :
       (pull[t].exit # "read_failed" /\ pull'[t].exit = "read_failed")
         => /\ pull'[t].pc = "done"
            /\ t \in stream_sessions'
            /\ ~session'[t].live
            /\ session'[t].status = "stopped"
            /\ session'[t].error = "none"
            /\ get_stream_status(t)'.status = "stopped"
            /\ pull'[t].cap = "released"
            /\ writers'[WriterOfUrl(t)].state = "released"]_vars

\* C10 witness: a URL task has ended on a failed read after reading a frame
C10_Witness ==
  \E t \in Tokens :
    /\ pull[t].pc = "done" /\ pull[t].exit = "read_failed"
    /\ pull[t].frame_count >= 1
    /\ ~session[t].live /\ session[t].status = "stopped"

\* C11: when a send of a broadcast fails, the failing channel is removed from
\* the session's subscriber set and the broadcast goes on to the channels
\* registered after it.
C11_FailedSendIsIsolated ==
  [][\A b \in Casts :
       (casts[b].pc = "send" /\ casts'[b].failed # casts[b].failed)
         => LET t == casts[b].token
                w == casts[b].target
                nxt == IterNext(t, casts[b].lst, casts[b].bidx)
            IN
            /\ ~InList(active_connections'[t], w)
            /\ nxt # 0 => (casts'[b].pc = "send" /\ casts'[b].target = nxt)]_vars

\* how many times message x is in the sequence seq
Times(seq, x) == Cardinality({i \in 1..Len(seq) : seq[i] = x})

\* C12: when a broadcast in which no send failed ends, every channel that was
\* registered when it began, is still registered and is still open has received
\* the message exactly once, whatever subscribed or unsubscribed meanwhile.
C12_StayingChannelsGetMessageOnce ==
  [][\A b \in Casts :
       (casts[b].pc = "send" /\ casts'[b].pc = "done" /\ casts'[b].failed = {})
         => LET t == casts[b].token IN
            \A w \in casts[b].members :
              (InList(active_connections'[t], w) /\ sock'[w] = "open")
                => Times(delivered'[w], BroadcastPayload(casts[b].at, b)) = 1]_vars

\* C13: a broadcast call accepted for a session with no subscriber sends
\* nothing, changes no subscriber list, no session and no other stream state,
\* and is answered 200 with zero recipients.
C13_BroadcastToNobodyIsNoOp ==
  [][\A b \in Casts, t \in Tokens :
       (casts[b].pc = "idle" /\ casts'[b].pc # "idle" /\ casts'[b].token = t
          /\ IsLive(t) /\ Len(active_connections[t]) = 0)
         => /\ casts'[b].pc = "done"
            /\ casts'[b].response.status_code = 200
            /\ casts'[b].response.recipient_count = 0
            /\ delivered' = delivered
            /\ active_connections' = active_connections
            /\ list_ids' = list_ids
            /\ stream_sessions' = stream_sessions
            /\ session' = session
            /\ last_frames' = last_frames
            /\ writers' = writers]_vars

\* C13 witness: a broadcast call on a live session without subscribers has
\* returned
C13_Witness ==
  \E b \in Casts :
    /\ casts[b].pc = "done" /\ casts[b].members = {}
    /\ casts[b].response.status_code = 200

\* a step that leaves the registry, the subscriber lists, the caches, the
\* writers and the clients' messages as they were
StreamStateUnchanged ==
  /\ stream_sessions' = stream_sessions
  /\ session' = session
  /\ last_frames' = last_frames
  /\ active_connections' = active_connections
  /\ list_ids' = list_ids
  /\ writers' = writers
  /\ delivered' = delivered
  /\ frame_numbers' = frame_numbers
  /\ detection_queues' = detection_queues

C15_DetectionNeverBlocksIngestion ==
  \A t \in Tokens :
    /\ (\E n \in FrameNums : detections[t][n].pc = "detect")
         => pull[t].pc \in {"sleep", "done"}
    /\ \A w \in Conns : ws[w].token = t => ws[w].pc # "detect"

\* the detection interval in force for stream t: the configured one of a URL
\* stream, the fixed one of the websocket handler
IntervalOf(t) ==
  IF session[t].type = "url_stream" THEN session[t].detection_interval ELSE PushInterval

\* C16: a classification is dispatched for a frame of a session only when the
\* session has a subscriber and at least the detection interval has passed
\* since the session's previous sample.
C16_SampleGate ==
  [][\A t \in Tokens :
       (\/ \E w \in Conns : ws[w].token = t /\ ws[w].pc = "receive" /\ ws'[w].pc = "detect"
        \/ \E n \in FrameNums : detections[t][n].pc = "none"
                                  /\ detections'[t][n].pc = "detect")
         => /\ Len(active_connections[t]) >= 1
            /\ samples[t] # Unset => now - samples[t] >= IntervalOf(t)]_vars

\* message m is a detection result about frame n
IsVerdictFor(m, n) == m.type = "smoking_detection" /\ m.frame_number = n

\* C17: the step in which a classification returns nothing sends no message
\* and starts no broadcast, records no error in the session and leaves the
\* ingestion going: the URL task is untouched and the websocket handler goes
\* on with the frame and returns to its read.  No subscriber ever holds a
\* result for a frame whose classification returned nothing.
C17_NoResultNoMessage ==
  [][\A t \in Tokens :
       /\ \A n \in FrameNums :
            /\ (detections[t][n].pc = "detect" /\ detections'[t][n].pc # "detect"
                   /\ detections'[t][n].verdict = "none")
                 => /\ detections'[t][n].pc = "done"
                    /\ delivered' = delivered
                    /\ pull' = pull
                    /\ session' = session
            /\ (detections[t][n].pc = "done" /\ detections[t][n].verdict = "none")
                 => \A w \in Conns : \A i \in 1..Len(delivered[w]) :
                      ws[w].token = t => ~IsVerdictFor(delivered[w][i], n)
       /\ \A w \in Conns :
            (ws[w].token = t /\ ws[w].pc = "detect" /\ ws'[w].pc # "detect"
               /\ ws'[w].verdict = "none")
              => /\ delivered' = delivered
                 /\ session'[t].status = session[t].status
                 /\ session'[t].error = session[t].error
                 /\ session'[t].live = session[t].live
                 /\ ws'[w].pc = IF IsClosing(t) THEN "returned" ELSE "receive"
                 /\ (~IsClosing(t) /\ ws'[w].skipped = "none")
                      => last_frames'[t] = <<WriterOfConn(w), ws[w].frame_count>>]_vars

\* C17 witness: in a URL session with a subscriber the classification of a
\* frame has returned nothing, nothing was sent and the task has read a later
\* frame
C17_Witness ==
  \E t \in Tokens, n \in FrameNums :
    /\ detections[t][n].pc = "done" /\ detections[t][n].verdict = "none"
    /\ Len(active_connections[t]) >= 1
    /\ \A w \in Conns : ws[w].token = t => delivered[w] = <<>>
    /\ pull[t].frame_count > n
    /\ session[t].status = "streaming"

\* the same in a push session: the handler's classifier call has returned
\* nothing, the frame was written and cached and the handler reads again
C17_PushWitness ==
  \E w \in Conns :
    /\ ws[w].pc = "receive" /\ ws[w].verdict = "none"
    /\ delivered[w] = <<>>
    /\ last_frames[ws[w].token] = <<WriterOfConn(w), ws[w].frame_count>>

\* C18: a classification that returns when its session is no longer live
\* (stopped, closed or removed from the registry) ends without a broadcast:
\* the unit is done at once and no subscriber receives anything.
C18_LateResultDiscarded ==
  [][\A t \in Tokens, n \in FrameNums :
       (detections[t][n].pc = "detect" /\ detections'[t][n].pc # "detect" /\ ~IsLive(t))
         => /\ detections'[t][n].pc = "done"
            /\ delivered' = delivered]_vars

\* the websocket handlers that are in their receive loop for stream t and
\* write its frames to a writer of their own
IngestingHandlers(t) ==
  {w \in Conns : ws[w].token = t /\ ws[w].pc \in {"receive", "detect", "send"}
                   /\ ws[w].video_writer # None}

\* C19: a live session has at most one running context that writes its frames
\* and at most one sink was created for it.
C19_OneIngestionContext ==
  \A t \in Tokens :
    IsLive(t) =>
      /\ Cardinality(IngestingHandlers(t))
           + (IF pull[t].pc = "sleep" THEN 1 ELSE 0) <= 1
      /\ Cardinality({i \in WritersOf(t) : writers[i].state # "none"}) <= 1

\* C20: the step in which a websocket handler fails to create its writer for a
\* decoded frame puts the session in the error state, with the cause
\* recorded, and ends the handler's ingestion.
C20_SinkInitFailureIsFatal ==
  [][\A w \in Conns :
       (/\ ws'[w].skipped = "writer_init"
        /\ \/ ws'[w].frame_count = ws[w].frame_count + 1
           \/ ws[w].pc \in {"detect", "send"} /\ ws'[w].pc = "receive")
         => LET t == ws[w].token IN
            /\ session'[t].status = "error"
            /\ session'[t].error # "none"
            /\ ws'[w].pc \notin {"receive", "detect", "send"}]_vars

\* C21: the step in which a websocket handler receives a frame that does not
\* decode writes nothing to any writer, leaves the latest-frame cache, the
\* session and the registry as they were, calls no classifier and sends
\* nothing; the handler is back at its read of the next frame.
C21_UndecodableFrameSkipped ==
  [][\A w \in Conns :
       (ws'[w].frame_count = ws[w].frame_count + 1 /\ ws'[w].skipped = "decode")
         => /\ ws'[w].pc = "receive"
            /\ ws'[w].last_checked = ws[w].last_checked
            /\ ws'[w].video_writer = ws[w].video_writer
            /\ writers' = writers
            /\ last_frames' = last_frames
            /\ samples' = samples
            /\ delivered' = delivered
            /\ session' = session
            /\ stream_sessions' = stream_sessions
            /\ active_connections' = active_connections]_vars

\* C21 witness: a handler's first frame did not decode although a sample was
\* due, and its second frame was then sampled, written and cached
C21_Witness ==
  \E w \in Conns :
    /\ ws[w].frame_count = 2 /\ ws[w].pc = "receive" /\ ws[w].skipped = "none"
    /\ ws[w].verdict # "unset"
    /\ writers[WriterOfConn(w)].frames = <<2>>
    /\ last_frames[ws[w].token] = <<WriterOfConn(w), 2>>

\* no explicit close was issued for stream t
NeverClosed(t) == ~session[t].closing /\ session[t].closed_at = Unset

\* C22: the step in which a websocket handler that has written frames of a
\* push session leaves on a disconnect, no close having been issued: if no
\* subscriber is left the session is out of the registry, its cached frame is
\* cleared and no writer of the session is left open; if a subscriber is
\* left the session stays registered.
C22_ProducerDisconnectTearsDown ==
  [][\A w \in Conns :
       (/\ ws[w].pc # "closed" /\ ws'[w].pc = "closed"
        /\ ws[w].video_writer # None
        /\ ws[w].token \in stream_sessions
        /\ session[ws[w].token].type = "websocket"
        /\ NeverClosed(ws[w].token))
         => LET t == ws[w].token IN
            IF active_connections'[t] = <<>>
              THEN /\ t \notin stream_sessions'
                   /\ last_frames'[t] = NoFrame
                   /\ SinkReleased(t)'
              ELSE t \in stream_sessions']_vars

\* C23: a session leaves the registry only in a step that completes a close
\* of it (or after one has drained it), or, for a push session, in the step
\* in which its last subscriber disconnects; a pull session is never removed
\* because a subscriber disconnected.
C23_RegistryRemovalCauses ==
  [][\A t \in Tokens :
       (t \in stream_sessions /\ t \notin stream_sessions')
         => \/ session'[t].closed_at # Unset
            \/ /\ session[t].type = "websocket"
               /\ active_connections[t] # <<>>
               /\ active_connections'[t] = <<>>]_vars

\* handler w runs manager.disconnect in this step
Unsubscribes(w) == ws[w].pc # "closed" /\ ws'[w].pc = "closed"

\* C24: the step in which a handler calls ConnectionManager.disconnect: the
\* call changes the subscriber list of the handler's stream id and nothing
\* else, and when a subscriber is left, so that the handler adds no teardown
\* of its own, the registry, the cached frames, the writers and the session
\* record are what they were.
C24_DisconnectOnlyUnsubscribes ==
  [][\A w \in Conns :
       Unsubscribes(w)
         => LET t == ws[w].token
                after == disconnect(w, t)
            IN
            /\ after.stream_sessions = stream_sessions
            /\ after.last_frames = last_frames
            /\ after.writers = writers
            /\ \A u \in Tokens \ {t} :
                 after.active_connections[u] = active_connections[u]
            /\ active_connections' = after.active_connections
            /\ active_connections'[t] # <<>>
                 => /\ stream_sessions' = stream_sessions
                    /\ last_frames' = last_frames
                    /\ writers' = writers
                    /\ session' = session]_vars

\* a producer that has stored a frame has disconnected and a subscriber of
\* the stream is left: the session, its cached frame and its writer remain
C24_Witness ==
  \E w \in Conns :
    /\ ws[w].pc = "closed" /\ ws[w].video_writer # None
    /\ ws[w].token \in stream_sessions
    /\ active_connections[ws[w].token] # <<>>
    /\ \A i \in DOMAIN active_connections[ws[w].token] :
         active_connections[ws[w].token][i] # w
    /\ last_frames[ws[w].token] # NoFrame
    /\ writers[ws[w].video_writer].state = "open"

\* Two sessions side by side, a push session and a URL session or two of a
\* kind, with one close call.
NextTwin ==
  \/ request_stream_token
  \/ \E i \in DetectionIntervals : open_stream_from_url(i)
  \/ \E t \in Tokens, opened \in BOOLEAN, ret \in BOOLEAN : PullStart(t, opened, ret)
  \/ \E t \in Tokens, ret \in BOOLEAN : PullResume(t, ret)
  \/ \E t \in Tokens, o \in SendResults : PullErrorSent(t, o)
  \/ \E w \in Conns, t \in Tokens : WsConnect(w, t)
  \/ \E w \in Conns, decoded \in BOOLEAN, init_ok \in BOOLEAN :
       PushClient(w) /\ WsReceive(w, decoded, init_ok)
  \/ \E w \in Conns : ClientClose(w)
  \/ \E w \in Conns : WsDisconnect(w)
  \/ \E c \in 1..MaxPullCloseCalls, t \in Tokens : CloseBegin(c, t)
  \/ \E c \in 1..MaxPullCloseCalls : CloseFinish(c)

SpecTwin == Init /\ [][NextTwin]_vars

\* what the program holds for stream t: its registry entry and session record,
\* its subscribers, its cached frame, its writers, and its ingestion contexts
\* (the websocket handlers bound to it and its URL task)
SessionState(t) ==
  [registered |-> t \in stream_sessions,
   record |-> session[t],
   subscribers |-> active_connections[t],
   cache |-> last_frames[t],
   sinks |-> [i \in WritersOf(t) |-> writers[i]],
   handlers |-> [w \in {x \in Conns : ws[x].token = t} |-> ws[w]],
   task |-> pull[t]]

\* this step is a fatal error, a close or a teardown of stream t
Ends(t) ==
  \/ t \in stream_sessions /\ t \notin stream_sessions'
  \/ session[t].live /\ ~session'[t].live
  \/ ~session[t].closing /\ session'[t].closing
  \/ session[t].status # "error" /\ session'[t].status = "error"

\* C25: a step that is a fatal error, a close or a teardown of one session
\* leaves the registry entry, the subscribers, the cached frame and the
\* writers of every other session as they were, and leaves the ingestion
\* contexts of the other sessions where they were in their loops.
C25_SessionsFailIndependently ==
  [][\A t \in Tokens : \A u \in Tokens \ {t} :
       Ends(t) => SessionState(u)' = SessionState(u)]_vars

\* one session has been torn down or has stopped and another one is
\* registered and live with a handler in its loop, its stored frame in the
\* cache and in its open writer
C25_Witness ==
  \E t \in Tokens : \E u \in Tokens \ {t} :
    /\ session[t].type # "none" /\ ~IsLive(t)
    /\ IsLive(u)
    /\ last_frames[u] # NoFrame
    /\ \E w \in IngestingHandlers(u) :
         /\ ws[w].pc = "receive"
         /\ writers[ws[w].video_writer].state = "open"
         /\ writers[ws[w].video_writer].frames # <<>>

\* ------------------------------------------------------------ batch claims
\* the classifier answered yes for this sample
IsYes(result) ==
  result \in {Text(<<"Y", "e", "s">>), Text(<<" ", "Y", "E", "S", ".", " ">>)}

\* job j went through its background task without an exception
Processed(j) == jobs[j].pc = "done" /\ jobs[j].raised = "none"

\* the number of positive samples among samples i .. i + 4
PositivesFrom(api_verdicts, i) ==
  Cardinality({k \in i..(i + 4) : IsYes(api_verdicts[k])})

\* the number of windows of 5 consecutive samples that hold at least 3
\* positive samples
PositiveWindows(api_verdicts) ==
  Cardinality({i \in 1..(Len(api_verdicts) - 4) : PositivesFrom(api_verdicts, i) >= 3})

\* C26: a processed job with 1 to 4 samples has the verdict Yes exactly when
\* the classifier answered yes for at least one sample; a sample whose
\* classification failed (None) is not a yes.
C26_FewSamplesAnyPositive ==
  \A j \in Jobs :
    (Processed(j) /\ Len(jobs[j].api_verdicts) \in 1..4)
      => /\ ~IsYes(NoResult)
         /\ job_results[j] =
              Completed(IF \E k \in 1..Len(jobs[j].api_verdicts) :
                             IsYes(jobs[j].api_verdicts[k])
                          THEN "Yes" ELSE "No")

\* the samples [Yes, No, Yes] gave Yes, and a lone failed classification
\* gave No
C26_Witness ==
  \E j \in Jobs :
    /\ Processed(j)
    /\ jobs[j].api_verdicts = <<Text(<<"Y", "e", "s">>), Text(<<"N", "o">>),
                                Text(<<"Y", "e", "s">>)>>
    /\ job_results[j] = Completed("Yes")

\* C27: for a processed job with n >= 5 samples the window pass yields n - 4
\* window labels, one per run of 5 consecutive samples in order, and a
\* window's label is Yes exactly when at least 3 of its 5 samples are
\* positive.
C27_TrailingWindows ==
  \A j \in Jobs :
    (Processed(j) /\ Len(jobs[j].api_verdicts) >= 5)
      => LET api == jobs[j].api_verdicts
             wv == WindowVerdicts(FrameVerdicts(api))
         IN
         /\ Len(wv) = Len(api) - 4
         /\ \A i \in 1..Len(wv) : (wv[i] = "Yes") <=> (PositivesFrom(api, i) >= 3)
         /\ \A i \in 1..Len(wv) : wv[i] \in {"Yes", "No"}

\* 7 samples, none positive: 3 windows, all negative, verdict No
C27_Witness ==
  \E j \in Jobs :
    /\ Processed(j)
    /\ Len(jobs[j].api_verdicts) = 7
    /\ \A k \in 1..7 : ~IsYes(jobs[j].api_verdicts[k])
    /\ WindowVerdicts(FrameVerdicts(jobs[j].api_verdicts)) = <<"No", "No", "No">>
    /\ job_results[j] = Completed("No")

\* C28: a processed job whose samples went through the windows (5 samples or
\* more) has the verdict Yes exactly when more than half of its windows are
\* positive, so that exactly half gives No; the reduction of an empty list of
\* windows is No, and a job without samples, which has no windows, is No.
C28_StrictMajorityOfWindows ==
  /\ Aggregate(<<>>) = "No"
  /\ \A j \in Jobs :
       Processed(j)
         => LET api == jobs[j].api_verdicts IN
            /\ Len(api) >= 5
                 => job_results[j] =
                      Completed(IF 2 * PositiveWindows(api) > Len(api) - 4
                                  THEN "Yes" ELSE "No")
            /\ jobs[j].sampled_frames = <<>> => job_results[j] = Completed("No")

\* 6 samples whose first window is positive and whose second is not: one of
\* two windows, verdict No
C28_Witness ==
  \E j \in Jobs :
    /\ Processed(j)
    /\ Len(jobs[j].api_verdicts) = 6
    /\ PositivesFrom(jobs[j].api_verdicts, 1) >= 3
    /\ PositivesFrom(jobs[j].api_verdicts, 2) < 3
    /\ job_results[j] = Completed("No")

\* C29: a job whose video opens and holds no frame to sample is completed
\* with the verdict No, and no detect_smoking call was made for it.
C29_NoSamplesIsNo ==
  \A j \in Jobs :
    (jobs[j].pc = "done" /\ jobs[j].raised # "OSError"
       /\ jobs[j].video.opened /\ jobs[j].video.frames = 0)
      => /\ job_results[j] = Completed("No")
         /\ jobs[j].calls = 0
         /\ jobs[j].api_verdicts = <<>>

\* a video that opens without a frame was completed with No after one write
C29_Witness ==
  \E j \in Jobs :
    /\ jobs[j].pc = "done" /\ jobs[j].video.opened /\ jobs[j].video.frames = 0
    /\ jobs[j].writes = 1
    /\ job_results[j] = Completed("No")
    /\ polled = [code |-> 200, body |-> Completed("No")]

\* the dicts a finished job can hold
TerminalResults ==
  {Completed(v) : v \in {"Yes", "No"}}
    \cup {Failed(e) : e \in {"OSError", "HTTPException", "ZeroDivisionError"}}

\* C30: a job enters job_results as "processing"; from there its entry is
\* written at most once, to "completed" with a verdict or to "failed" with an
\* error; a terminal entry never changes; a request or a background task that
\* ended with an exception has left the job "failed", and no finished task
\* leaves its job "processing".
C30_JobWrittenOnce ==
  [][\A j \in Jobs :
       /\ (job_results[j].status = "none" /\ job_results'[j].status # "none")
            => job_results'[j] = Processing
       /\ job_results[j].status = "processing"
            => job_results'[j] \in {Processing} \cup TerminalResults
       /\ job_results[j] \in TerminalResults => job_results'[j] = job_results[j]
       /\ jobs'[j].writes <= 1
       /\ (jobs'[j].pc = "done" /\ jobs'[j].raised # "none")
            => job_results'[j].status = "failed"
       /\ jobs'[j].pc = "done" => job_results'[j] \in TerminalResults
       /\ job_results'[j].status = "processing"
            => jobs'[j].pc \in {"upload", "queued", "gather"}]_vars

\* a background task that raised left its job failed, and the poll shows it
C30_Witness ==
  \E j \in Jobs :
    /\ jobs[j].pc = "done" /\ jobs[j].raised = "ZeroDivisionError"
    /\ jobs[j].writes = 1
    /\ job_results[j] = Failed("ZeroDivisionError")
    /\ polled = [code |-> 200, body |-> Failed("ZeroDivisionError")]

\* C31: a reply of GET /stream/list names exactly the sessions that were
\* created, are registered and were not closed through the close endpoint: a
\* session whose close has completed is not in a list made afterwards.
C31_ListHasNoClosedStream ==
  [][(http'.op = "list" /\ http' # http)
       => \A t \in Tokens :
            (t \in http'.response.active_streams)
              <=> (session[t].type # "none" /\ session[t].closed_at = Unset
                     /\ t \in stream_sessions)]_vars

\* C32: the step in which a client opens the stream websocket with a stream
\* id that is not registered: the stream is created and the connection is
\* not rejected.
C32_UnknownIdIsCreated ==
  [][\A w \in Conns :
       (ws[w].pc = "idle" /\ ws'[w].pc # "idle" /\ ws'[w].token \notin stream_sessions)
         => /\ ws'[w].token \in stream_sessions'
            /\ ws'[w].pc # "rejected"
            /\ sock'[w] = "open"]_vars

\* connection w receives in this step a detection result of URL stream t
GetsResult(w, t) ==
  /\ ws[w].token = t /\ session[t].type = "url_stream"
  /\ Len(delivered'[w]) = Len(delivered[w]) + 1
  /\ delivered'[w][Len(delivered'[w])].type = "smoking_detection"

\* the detection tasks of stream t that were started and have not ended
InFlight(t) == {n \in FrameNums : detections[t][n].pc \in {"detect", "send"}}

\* C34: a detection result that reaches a subscriber of a URL stream is sent
\* by the ordering task, which took it out of the stream's result buffer
\* under its frame number, the number the buffer expected next; the buffer
\* never holds more results than there are detection tasks in flight.
C34_ResultsPassTheBuffer ==
  [][\A t \in Tokens :
       /\ \A w \in Conns :
            GetsResult(w, t)
              => /\ sender[t].pc = "send" /\ sender[t].target = w
                 /\ delivered'[w][Len(delivered'[w])].frame_number = sender[t].frame
                 /\ sender[t].frame = detection_queues[t].next_frame
       /\ Cardinality(detection_queues[t].results) <= Cardinality(InFlight(t))]_vars

\* C35: once the classification of frame n of a URL stream has failed, the
\* frame the ordering task expects next stays at n or before it, and no
\* subscriber of the stream has received the result of a frame sampled after
\* n.
C35_FailedFrameStallsLaterOnes ==
  \A t \in Tokens : \A n \in FrameNums :
    (session[t].type = "url_stream" /\ detections[t][n].pc = "done"
       /\ detections[t][n].verdict = "none")
      => /\ detection_queues[t].exists => detection_queues[t].next_frame <= n
         /\ \A w \in Conns : \A i \in 1..Len(delivered[w]) :
              (ws[w].token = t /\ delivered[w][i].type = "smoking_detection")
                => delivered[w][i].frame_number <= n

\* the ordering task of stream t has been started and has not returned
SenderRuns(t) == sender[t].pc \in {"yield", "wait", "send"}

\* C36: whenever the ordering task of a URL stream runs and the stream is
\* not live (closed, stopped, failed, or out of the registry), the task ends
\* or the stream is live again.
C36_OrderingTaskEnds ==
  \A t \in Tokens :
    (SenderRuns(t) /\ ~IsLive(t)) ~> (~SenderRuns(t) \/ IsLive(t))

\* the ordering task has returned for a URL stream that a close call closed
C36_Witness ==
  \E t \in Tokens :
    /\ sender[t].pc = "done" /\ ~IsLive(t)
    /\ session[t].type = "url_stream"
    /\ session[t].closed_at # Unset

\* handler w leaves its loop in this step because it saw the closing flag
SeesClosing(w) == ws[w].pc # "returned" /\ ws'[w].pc = "returned"

\* C37: the step in which a websocket handler of a push session sees the
\* closing flag and leaves its loop: the decoded frame it holds, the last
\* one it received, is the last frame of its writer and is the cached frame
\* of the stream.
C37_ClosingKeepsReceivedFrame ==
  [][\A w \in Conns :
       SeesClosing(w)
         => LET n == ws'[w].frame_count
                vw == WriterOfConn(w)
            IN
            /\ writers'[vw].frames # <<>>
            /\ writers'[vw].frames[Len(writers'[vw].frames)] = n
            /\ last_frames'[ws'[w].token] = <<vw, n>>]_vars

\* C38: no writer is released more than once, whatever close calls, loop
\* exits and disconnects have happened.
C38_SinkReleasedAtMostOnce ==
  \A i \in WriterIds : writers[i].releases <= 1

\* the connection handler of w is inside websocket_endpoint
HandlerRuns(w) == ws[w].pc \in {"receive", "detect", "send"}

\* C39: every channel in a session's subscriber list belongs to a handler that
\* is still running; a handler that has left its loop on the closing flag is
\* in no subscriber list.
C39_SubscribersHaveRunningHandlers ==
  \A t \in Tokens :
    \A i \in DOMAIN active_connections[t] :
      HandlerRuns(active_connections[t][i])

\* connection w is accepted as a subscriber of session t at this step
Subscribes(w, t) ==
  /\ ws[w].pc = "idle"
  /\ ws'[w].pc = "receive"
  /\ ws'[w].token = t

\* C40: a channel that subscribes to a session whose ingestion loop has
\* already recorded its writer leaves the recorded writer of the session as
\* it was.
C40_SubscribeKeepsRecordedSink ==
  [][\A w \in Conns, t \in Tokens :
       (Subscribes(w, t) /\ session[t].video_writer \notin {KeyMissing, None})
         => session'[t].video_writer = session[t].video_writer]_vars

====
